---- MODULE Spec2Model ----
(***************************************************************************)
(* Verification model of the ChatCityPlatform public-transport tool chain. *)
(*                                                                         *)
(* Part 1: the Chain Validator, tools/explicit_chains_validate.py          *)
(*         (_map_lines, _best_vehicle_arrival, _validate_one_plan, main).  *)
(* Part 2: the Intermodal Planner, tools/od_to_explicit_chains.py          *)
(*         (_plan_stats_from_stages, _meets_constraints, _relaxation_grid, *)
(*          _stages_to_plan, main).                                        *)
(*                                                                         *)
(* Part 3: the Route Stitcher, tools/fill_pt_route_edges_and_prune.py      *)
(*         (_is_stop_sequence_downstream, fill_edges_and_prune, main).     *)
(* Part 4: the Lane Matcher, map_stops_to_network_optimized.py             *)
(*         (_is_valid_lane, find_nearest_edge, map_stops_to_network).      *)
(* Part 5: the Timetable Converter, convert_timetable_to_sumo.py           *)
(*         (_select_single_service_group, create_routes_and_vehicles).     *)
(*                                                                         *)
(* Python's None / a missing key is the empty sequence, a present value x  *)
(* is the one-element sequence <<x>>.  Times are whole seconds: the        *)
(* timetable converter writes every "until" as str(int).                   *)
(***************************************************************************)
EXTENDS Integers, Sequences, FiniteSets, TLC

None == <<>>
Some(x) == <<x>>
Val(o) == o[1]

Max2(a, b) == IF a >= b THEN a ELSE b

(***************************************************************************)
(* Bounds of the checked universe.                                         *)
(***************************************************************************)
\* longest leg list of a generated plan
MaxLegs == 2
\* largest time of day (seconds) in stop times and departures
MaxTime == 3
\* longest <stop> list of a generated vehicle
MaxStopTimes == 3
\* longest list of plans handed to one validator run
MaxPlans == 2
\* longest stage sequence the oracle answers with
MaxStages == 3
\* longest access/egress walk (metres) of a generated stage
MaxWalkLength == 2
\* longest list of OD requests handed to one planner run
MaxOds == 2
MaxPos == 2
MaxStops == 3
MaxRoutes == 2
MaxVehicles == 2
MaxLanes == 2
MaxMatchStops == 2
\* most journeys of a generated line out of one stop
MaxRuns == 5
\* most patterns of a generated timetable handed to the heading estimator
MaxHeadingPatterns == 2
\* most lines of a generated timetable
MaxConvLines == 2
\* most service groups of a generated line
MaxGroups == 2
\* largest --max-vehicles of a generated run
MaxVehicleLimit == 2

(***************************************************************************)
(* explicit_chains_validate.py : data                                      *)
(***************************************************************************)
\* A leg anchor as found in the JSON: {"edge": v}, {"busStop": v}, or an
\* object with neither key ("none"), on which _parse_ref raises.
EdgeRef(v) == [kind |-> "edge", value |-> v]
StopRef(v) == [kind |-> "busStop", value |-> v]
BadRef == [kind |-> "none", value |-> ""]

\* _parse_ref: "edge" is looked up first, then "busStop"; otherwise ValueError.
parse_ref_raises(obj) == obj.kind \notin {"edge", "busStop"}
parse_ref(obj) == [kind |-> obj.kind, value |-> obj.value]

\* A line label is prefix + name ("bus:" + "L1").
Label(p, n) == [prefix |-> p, name |-> n]

\* --strip-line-prefix default
strip_prefixes == <<"subway:", "bus:">>

\* --line-map: not given on the command line, _load_line_map returns {}
line_map == [l \in {} |-> Label("", "")]

\* raw[len(prefix):] for the first prefix of strip_prefixes the label starts with
RECURSIVE StripFirst(_, _)
StripFirst(raw, k) ==
    IF k > Len(strip_prefixes) THEN raw
    ELSE IF raw.prefix = strip_prefixes[k] THEN Label("", raw.name)
    ELSE StripFirst(raw, k + 1)

MapOne(raw) == IF raw \in DOMAIN line_map THEN line_map[raw] ELSE StripFirst(raw, 1)

\* unique while preserving order
RECURSIVE Dedupe(_, _, _)
Dedupe(mapped, k, out) ==
    IF k > Len(mapped) THEN out
    ELSE IF \E j \in 1..Len(out) : out[j] = mapped[k] THEN Dedupe(mapped, k + 1, out)
    ELSE Dedupe(mapped, k + 1, Append(out, mapped[k]))

map_lines(lines) == Dedupe([k \in 1..Len(lines) |-> MapOne(lines[k])], 1, <<>>)

\* _parse_until_seconds: int(float(value)); None when the attribute is
\* missing or not a number.  Values are whole seconds.
parse_until_seconds(raw) == IF raw = None THEN None ELSE Some(Val(raw))

NoStop == "<none>"

(***************************************************************************)
(* _best_vehicle_arrival                                                   *)
(***************************************************************************)
\* The scan of one vehicle's <stop> children.  Result: <<from_until, to_until>>.
RECURSIVE ScanStops(_, _, _, _, _, _, _)
ScanStops(stops, i, from_stop, to_stop, from_until, to_until, seen_from) ==
    IF i > Len(stops) THEN <<from_until, to_until>>
    ELSE LET bs == stops[i].busStop
             until == parse_until_seconds(stops[i].until)
         IN IF until = None \/ bs = NoStop
            THEN ScanStops(stops, i + 1, from_stop, to_stop, from_until, to_until, seen_from)
            ELSE IF bs = from_stop /\ from_until = None
            THEN ScanStops(stops, i + 1, from_stop, to_stop, until, to_until, TRUE)
            ELSE IF bs = to_stop /\ seen_from /\ to_until = None
            THEN <<from_until, until>>
            ELSE ScanStops(stops, i + 1, from_stop, to_stop, from_until, to_until, seen_from)

\* Variant: a vehicle is a candidate whenever it serves both stops in order.
VehicleCandidate_AnyTime(vehicle, from_stop, to_stop, earliest_time) ==
    LET r == ScanStops(vehicle.stops, 1, from_stop, to_stop, None, None, FALSE)
        from_until == r[1]
        to_until == r[2]
    IN IF from_until = None \/ to_until = None THEN None
       ELSE Some([vehicleId |-> vehicle.id, line |-> vehicle.line,
                  fromStop |-> from_stop, toStop |-> to_stop,
                  boardLatest |-> Val(from_until), arrivalTime |-> Val(to_until)])

\* The candidate of one vehicle, or None when the vehicle is skipped.
VehicleCandidate(vehicle, from_stop, to_stop, earliest_time) ==
    LET r == ScanStops(vehicle.stops, 1, from_stop, to_stop, None, None, FALSE)
        from_until == r[1]
        to_until == r[2]
    IN IF from_until = None \/ to_until = None THEN None
       ELSE IF earliest_time > Val(from_until) THEN None
       ELSE Some([vehicleId |-> vehicle.id, line |-> vehicle.line,
                  fromStop |-> from_stop, toStop |-> to_stop,
                  boardLatest |-> Val(from_until), arrivalTime |-> Val(to_until)])

\* "best is None or arrival < best.arrivalTime"
Better(cand, best) == best = None \/ cand.arrivalTime < Val(best).arrivalTime

\* The vehicles of all routes files, in file order then document order.
RECURSIVE Flatten(_, _)
Flatten(files, k) == IF k > Len(files) THEN <<>> ELSE files[k] \o Flatten(files, k + 1)

RECURSIVE BestOver(_, _, _, _, _, _, _)
BestOver(vehs, k, target_set, from_stop, to_stop, earliest_time, best) ==
    IF k > Len(vehs) THEN best
    ELSE IF vehs[k].line \notin target_set
    THEN BestOver(vehs, k + 1, target_set, from_stop, to_stop, earliest_time, best)
    ELSE LET c == VehicleCandidate(vehs[k], from_stop, to_stop, earliest_time)
         IN IF c # None /\ Better(Val(c), best)
            THEN BestOver(vehs, k + 1, target_set, from_stop, to_stop, earliest_time, c)
            ELSE BestOver(vehs, k + 1, target_set, from_stop, to_stop, earliest_time, best)

best_vehicle_arrival(files, target_lines, from_stop, to_stop, earliest_time) ==
    BestOver(Flatten(files, 1), 1, {target_lines[k] : k \in 1..Len(target_lines)},
             from_stop, to_stop, earliest_time, None)

(***************************************************************************)
(* State.  A run is a run of one tool; the state of the other tools stays  *)
(* as constructed.                                                         *)
(***************************************************************************)
\* explicit_chains_validate.py: main and the _validate_one_plan call in progress
VARIABLES
    plans,            \* --chains: the list of plans
    known_stops,      \* None without --additional, else the set of busStop ids
    routes_files,     \* --routes: one sequence of vehicles per file
    pc,               \* position of the run
    plan_i,           \* index (from 1) of the plan the for-loop of main is at
    per_person,       \* main: the reports so far
    ok_count,         \* main
    exit_status,      \* None while running, else the process exit status
    idx,              \* enumerate(legs) index (from 0) of the running pass
    errors, stop_errors, ride_errors, ride_reports,
    prev_to, referenced_stops, referenced_lines,
    time_cursor

\* od_to_explicit_chains.py: main
VARIABLES
    od_items,         \* the "ods" list of the OD JSON file, as read
    oracle,           \* what findIntermodalRoute answers for each item
    walk_limit,       \* args.walk_limit
    max_transfers,    \* args.max_transfers
    planner_pc,       \* position of the run
    ods,              \* _parse_ods(...)
    od_i,             \* index (from 1) of the request the for-loop is at
    chains,           \* the list "plans" of main: the chains to write
    results,          \* report["results"]
    planner_exit      \* None while running, else the process exit status

\* fill_pt_route_edges_and_prune.py: fill_edges_and_prune and main
VARIABLES
    additional,       \* the busStop elements of the --additional files, in order
    st_routes,        \* the <route> elements of the routes file: id and stops_sequence
    st_vehicles,      \* the <vehicle> elements of the routes file: id and route
    net,              \* net.getShortestPath: the answer for each pair of edges
    method,           \* --method
    computed,         \* what duarouter returns: route id -> edge list
    st_pc,            \* position of the run
    st_stats,         \* Stats
    route_i,          \* index (from 1) of the route or vehicle the running loop is at
    stop_edges_of,    \* route_id_to_stop_edges and route_id_to_stop_ids, in insertion order
    seg_i,            \* "i" of the segment loop (from 0)
    full,             \* the edges concatenated so far
    cache,            \* the segment cache
    oracle_calls,     \* the pairs getShortestPath was invoked with, in order
    valid_routes,     \* the kept routes with their edges, in insertion order
    kept_vehicles,    \* the kept vehicles
    st_output,        \* None until the output file is written
    stitch_exit       \* None while running, else the process exit status

\* map_stops_to_network_optimized.py: map_stops_to_network from its loop on
VARIABLES
    stop_elems,           \* the <busStop> elements of the stops file
    preferred_headings,   \* _build_preferred_headings(...): stop id -> heading
    require_vclasses,     \* None or the --require-vclass list
    max_radius,           \* --max-radius
    max_heading_diff_deg, \* --max-heading-diff-deg
    output_xml,           \* the output file name
    m_pc,                 \* position of the run
    m_i,                  \* index (from 1) of the stop the loop is at
    root,                 \* the busStop elements appended to the output root
    mapped_count,
    unmapped_stops,
    written_files,        \* the files written: name -> content
    m_exit                \* None while running, else the process exit status

\* map_stops_to_network_optimized.py: _build_preferred_headings
VARIABLES
    heading_patterns,     \* the "stops" lists of the patterns of the timetable, in order
    stop_xy,              \* stop id -> planar coordinates
    stop_prefix,
    h_pc,                 \* position of the run
    pat_i,                \* index (from 1) of the pattern the loop is at
    pair_i,               \* "i" of the pair loop (from 0)
    accum, counts,
    headings              \* "out"

\* convert_timetable_to_sumo.py: create_routes_and_vehicles
VARIABLES
    timetable,            \* the timetable JSON: the lines in order
    max_vehicles, max_vehicles_per_line, depart_begin, depart_end,
    service_policy, service_date, service_key,
    c_pc,                 \* position of the run
    line_i,               \* index (from 1) of the line the loop is at
    pattern_i,            \* index (from 1) of the pattern of the line
    selection,            \* what _select_single_service_group returned for the line
    rou_root,             \* the route and vehicle elements under the output root
    total_routes, total_vehicles, vehicles_per_line,
    rou_output,           \* None until the output file is written
    c_exit                \* None while running, else the process exit status

valVars == <<plans, known_stops, routes_files, pc, plan_i, per_person, ok_count,
             exit_status, idx, errors, stop_errors, ride_errors, ride_reports,
             prev_to, referenced_stops, referenced_lines, time_cursor>>

planVars == <<od_items, oracle, walk_limit, max_transfers, planner_pc, ods, od_i,
              chains, results, planner_exit>>

stitchVars == <<additional, st_routes, st_vehicles, net, method, computed, st_pc, st_stats,
                route_i, stop_edges_of, seg_i, full, cache, oracle_calls, valid_routes,
                kept_vehicles, st_output, stitch_exit>>

matchVars == <<stop_elems, preferred_headings, require_vclasses, max_radius,
               max_heading_diff_deg, output_xml, m_pc, m_i, root, mapped_count,
               unmapped_stops, written_files, m_exit>>

convVars == <<timetable, max_vehicles, max_vehicles_per_line, depart_begin, depart_end,
              service_policy, service_date, service_key, c_pc, line_i, pattern_i, selection,
              rou_root, total_routes, total_vehicles, vehicles_per_line, rou_output, c_exit>>

headingVars == <<heading_patterns, stop_xy, stop_prefix, h_pc, pat_i, pair_i, accum, counts,
                 headings>>

vars == <<valVars, planVars, stitchVars, matchVars, convVars, headingVars>>

\* What no step of the validator changes: its inputs and the other tools.
inputVars == <<plans, known_stops, routes_files, planVars, stitchVars, matchVars, convVars, headingVars>>
localVars == <<idx, errors, stop_errors, ride_errors, ride_reports, prev_to,
               referenced_stops, referenced_lines, time_cursor>>

plan == plans[plan_i]
legs == plan.legs
leg == legs[idx + 1]

\* Locals of _validate_one_plan outside a call.
LocalsIdle ==
    /\ idx = 0 /\ errors = <<>> /\ stop_errors = <<>> /\ ride_errors = <<>>
    /\ ride_reports = <<>> /\ prev_to = None /\ referenced_stops = {}
    /\ referenced_lines = {} /\ time_cursor = 0

LocalsReset ==
    /\ idx' = 0 /\ errors' = <<>> /\ stop_errors' = <<>> /\ ride_errors' = <<>>
    /\ ride_reports' = <<>> /\ prev_to' = None /\ referenced_stops' = {}
    /\ referenced_lines' = {} /\ time_cursor' = 0

\* sorted(...) over the stop ids of the universe (lexicographic)
StopOrder == <<"sA", "sB", "sX">>
\* sorted(...) over the mapped line labels of the universe
LineOrder == <<Label("", "L1"), Label("", "L2"), Label("tram:", "L1")>>

SortedStops(S) == SelectSeq(StopOrder, LAMBDA s : s \in S)
SortedLines(S) == SelectSeq(LineOrder, LAMBDA l : l \in S)

(***************************************************************************)
(* main: top of "for plan in plans"                                        *)
(***************************************************************************)
\* Exit status of main once the loop is over.
MainReturn(okc, reports) == IF okc = Len(reports) THEN 0 ELSE 1

MainFinish ==
    /\ pc = "main" /\ plan_i > Len(plans)
    /\ exit_status' = Some(MainReturn(ok_count, per_person))
    /\ pc' = "done"
    /\ UNCHANGED <<inputVars, plan_i, per_person, ok_count, localVars>>

\* "if not isinstance(plan, dict)"
MainNotObject ==
    /\ pc = "main" /\ plan_i <= Len(plans)
    /\ plan.kind # "object"
    /\ per_person' = Append(per_person, [ok |-> FALSE, errors |-> <<[kind |-> "plan_must_be_an_object"]>>])
    /\ plan_i' = plan_i + 1
    /\ UNCHANGED <<inputVars, pc, ok_count, exit_status, localVars>>

\* _validate_one_plan, the shape test: no personId, legs no list or empty.
InvalidShape(p) == p.personId = "" \/ p.legs = <<>>

ShapeReport(p) ==
    [personId |-> IF p.personId = "" THEN None ELSE Some(p.personId),
     depart |-> p.depart, ok |-> FALSE, errors |-> <<[kind |-> "invalid_plan_shape"]>>]

ValidateInvalidShape ==
    /\ pc = "main" /\ plan_i <= Len(plans)
    /\ plan.kind = "object" /\ InvalidShape(plan)
    /\ per_person' = Append(per_person, ShapeReport(plan))
    /\ plan_i' = plan_i + 1
    /\ UNCHANGED <<inputVars, pc, ok_count, exit_status, localVars>>

ValidateBegin ==
    /\ pc = "main" /\ plan_i <= Len(plans)
    /\ plan.kind = "object" /\ ~InvalidShape(plan)
    /\ pc' = "structural"
    /\ UNCHANGED <<inputVars, plan_i, per_person, ok_count, exit_status, localVars>>

(***************************************************************************)
(* _validate_one_plan: leg connectivity + stop existence (first loop)      *)
(***************************************************************************)
StructuralDone == idx >= Len(legs)

\* A leg whose type is neither walk nor ride: one error, nothing else is read.
StructuralUnknownType ==
    /\ pc = "structural" /\ ~StructuralDone
    /\ leg.type \notin {"walk", "ride"}
    /\ errors' = Append(errors, [kind |-> "unknown_type", leg |-> idx])
    /\ idx' = idx + 1
    /\ UNCHANGED <<inputVars, pc, plan_i, per_person, ok_count, exit_status,
                   stop_errors, ride_errors, ride_reports, prev_to,
                   referenced_stops, referenced_lines, time_cursor>>

\* _parse_ref raises on leg["from"] or leg["to"]; nothing in
\* _validate_one_plan or main catches it: the run ends with a traceback
\* (exit status 1) and neither report nor summary is written.
StructuralRaise ==
    /\ pc = "structural" /\ ~StructuralDone
    /\ leg.type \in {"walk", "ride"}
    /\ parse_ref_raises(leg.from) \/ parse_ref_raises(leg.to)
    /\ pc' = "crashed"
    /\ exit_status' = Some(1)
    /\ UNCHANGED <<inputVars, plan_i, per_person, ok_count, localVars>>

StopsOf(from_ref, to_ref) ==
    (IF from_ref.kind = "busStop" THEN {from_ref.value} ELSE {})
        \cup (IF to_ref.kind = "busStop" THEN {to_ref.value} ELSE {})

ChainError(i, from_ref, prev) == [kind |-> "chain", leg |-> i, from |-> from_ref, prev |-> prev]

\* The chaining test of one leg: the errors list after it.
ChainCheck(errs, i, from_ref, prev) ==
    IF prev # None /\ from_ref # Val(prev)
    THEN Append(errs, ChainError(i, from_ref, Val(prev)))
    ELSE errs

StructuralLeg ==
    /\ pc = "structural" /\ ~StructuralDone
    /\ leg.type \in {"walk", "ride"}
    /\ ~parse_ref_raises(leg.from) /\ ~parse_ref_raises(leg.to)
    /\ LET from_ref == parse_ref(leg.from)
           to_ref == parse_ref(leg.to)
       IN /\ errors' = ChainCheck(errors, idx, from_ref, prev_to)
          /\ prev_to' = Some(to_ref)
          /\ referenced_stops' = referenced_stops \cup StopsOf(from_ref, to_ref)
          /\ referenced_lines' =
                IF leg.type = "ride"
                THEN referenced_lines \cup
                     {map_lines(leg.lines)[k] : k \in 1..Len(map_lines(leg.lines))}
                ELSE referenced_lines
    /\ idx' = idx + 1
    /\ UNCHANGED <<inputVars, pc, plan_i, per_person, ok_count, exit_status,
                   stop_errors, ride_errors, ride_reports, time_cursor>>

\* "if known_stops is not None: for s in sorted(referenced_stops) ..."
UnknownStops(referenced, known) ==
    IF known = None THEN <<>>
    ELSE LET bad == SortedStops({s \in referenced : s \notin Val(known)})
         IN [k \in 1..Len(bad) |-> [kind |-> "unknown_stop", stop |-> bad[k]]]

\* End of the first loop: the stop check, then "time_cursor = depart".
StopCheck ==
    /\ pc = "structural" /\ StructuralDone
    /\ stop_errors' = UnknownStops(referenced_stops, known_stops)
    /\ time_cursor' = plan.depart
    /\ idx' = 0
    /\ pc' = "feasibility"
    /\ UNCHANGED <<inputVars, plan_i, per_person, ok_count, exit_status, errors,
                   ride_errors, ride_reports, prev_to, referenced_stops,
                   referenced_lines>>

(***************************************************************************)
(* _validate_one_plan: timetable feasibility (second loop)                 *)
(***************************************************************************)
FeasDone == idx >= Len(legs)

\* int(leg.get("duration_s", 0) or 0)
WalkDuration(l) == IF l.duration_s = None THEN 0 ELSE Val(l.duration_s)

\* Variant: the duration is added without the clamp at 0.
WalkAdvance_NoClamp(cursor, l) == cursor + WalkDuration(l)

\* time_cursor += max(0, duration)
WalkAdvance(cursor, l) == cursor + Max2(0, WalkDuration(l))

FeasWalk ==
    /\ pc = "feasibility" /\ ~FeasDone
    /\ leg.type = "walk"
    /\ time_cursor' = WalkAdvance(time_cursor, leg)
    /\ idx' = idx + 1
    /\ UNCHANGED <<inputVars, pc, plan_i, per_person, ok_count, exit_status, errors,
                   stop_errors, ride_errors, ride_reports, prev_to,
                   referenced_stops, referenced_lines>>

\* A leg that is neither walk nor ride is passed over.
FeasSkip ==
    /\ pc = "feasibility" /\ ~FeasDone
    /\ leg.type \notin {"walk", "ride"}
    /\ idx' = idx + 1
    /\ UNCHANGED <<inputVars, pc, plan_i, per_person, ok_count, exit_status, errors,
                   stop_errors, ride_errors, ride_reports, prev_to,
                   referenced_stops, referenced_lines, time_cursor>>

\* The outcome of one ride leg: either a ride error or the best vehicle.
RideOutcome(l, i, cursor, files) ==
    LET from_ref == parse_ref(l.from)
        to_ref == parse_ref(l.to)
        mapped_lines == map_lines(l.lines)
    IN IF from_ref.kind # "busStop" \/ to_ref.kind # "busStop"
       THEN [error |-> Some([kind |-> "not_stop_to_stop", leg |-> i]), best |-> None]
       ELSE IF mapped_lines = <<>>
       THEN [error |-> Some([kind |-> "empty_lines", leg |-> i]), best |-> None]
       ELSE IF files = <<>>
       THEN [error |-> Some([kind |-> "no_routes", leg |-> i, lines |-> mapped_lines]),
             best |-> None]
       ELSE LET best == best_vehicle_arrival(files, mapped_lines, from_ref.value,
                                             to_ref.value, cursor)
            IN IF best = None
               THEN [error |-> Some([kind |-> "no_vehicle", leg |-> i,
                                     lines |-> mapped_lines, from |-> from_ref.value,
                                     to |-> to_ref.value, t |-> cursor]),
                     best |-> None]
               ELSE [error |-> None, best |-> best]

\* {"legIndex": idx, "earliestTimeAtFrom": time_cursor, **best}
RideReport(i, cursor, best) ==
    [legIndex |-> i, earliestTimeAtFrom |-> cursor,
     vehicleId |-> best.vehicleId, line |-> best.line,
     fromStop |-> best.fromStop, toStop |-> best.toStop,
     boardLatest |-> best.boardLatest, arrivalTime |-> best.arrivalTime]

\* Variant: a failed ride leg loses the cursor (back to 0).
CursorAfterRide_ResetOnError(cursor, out) ==
    IF out.error # None THEN 0 ELSE Val(out.best).arrivalTime

\* time_cursor after a ride leg
CursorAfterRide(cursor, out) ==
    IF out.error # None THEN cursor ELSE Val(out.best).arrivalTime

FeasRide ==
    /\ pc = "feasibility" /\ ~FeasDone
    /\ leg.type = "ride"
    /\ LET out == RideOutcome(leg, idx, time_cursor, routes_files)
       IN /\ ride_errors' = IF out.error # None THEN Append(ride_errors, Val(out.error))
                            ELSE ride_errors
          /\ ride_reports' = IF out.error # None THEN ride_reports
                             ELSE Append(ride_reports, RideReport(idx, time_cursor, Val(out.best)))
          /\ time_cursor' = CursorAfterRide(time_cursor, out)
    /\ idx' = idx + 1
    /\ UNCHANGED <<inputVars, pc, plan_i, per_person, ok_count, exit_status, errors,
                   stop_errors, prev_to, referenced_stops, referenced_lines>>

\* Variant: the stop errors are left out of the verdict.
PlanOk_NoStopErrors(errs, stop_errs, ride_errs) == errs = <<>> /\ ride_errs = <<>>

\* "ok = not errors and not stop_errors and not ride_errors"
PlanOk(errs, stop_errs, ride_errs) == errs = <<>> /\ stop_errs = <<>> /\ ride_errs = <<>>

\* The report _validate_one_plan returns for a plan of valid shape.
FullReport ==
    [personId |-> Some(plan.personId),
     depart |-> plan.depart,
     ok |-> PlanOk(errors, stop_errors, ride_errors),
     errors |-> errors,
     stopErrors |-> stop_errors,
     rideErrors |-> ride_errors,
     rides |-> ride_reports,
     endTimeEstimate |-> time_cursor,
     referencedLinesMapped |-> SortedLines(referenced_lines)]

\* return of _validate_one_plan, then main: per_person.append(rep), ok_count.
ValidateReturn ==
    /\ pc = "feasibility" /\ FeasDone
    /\ per_person' = Append(per_person, FullReport)
    /\ ok_count' = IF FullReport.ok THEN ok_count + 1 ELSE ok_count
    /\ plan_i' = plan_i + 1
    /\ pc' = "main"
    /\ LocalsReset
    /\ UNCHANGED <<inputVars, exit_status>>

ValNext ==
    \/ MainFinish
    \/ MainNotObject
    \/ ValidateInvalidShape
    \/ ValidateBegin
    \/ StructuralUnknownType
    \/ StructuralRaise
    \/ StructuralLeg
    \/ StopCheck
    \/ FeasWalk
    \/ FeasSkip
    \/ FeasRide
    \/ ValidateReturn

(***************************************************************************)
(* The inputs the validator is checked on                                  *)
(***************************************************************************)
E1 == EdgeRef("e1")
SA == StopRef("sA")
SB == StopRef("sB")
SX == StopRef("sX")
L1 == Label("", "L1")
L2 == Label("", "L2")
BusL1 == Label("bus:", "L1")
TramL1 == Label("tram:", "L1")

Times == 0..MaxTime
SeqsUpTo(S, n) == UNION {[1..k -> S] : k \in 0..n}

StopEntry(s, u) == [busStop |-> s, until |-> u]
Vehicle(id, line, stops) == [id |-> id, line |-> line, stops |-> stops]
Walk(f, t, d) == [type |-> "walk", from |-> f, to |-> t, lines |-> <<>>, duration_s |-> d]
Ride(f, t, ls) == [type |-> "ride", from |-> f, to |-> t, lines |-> ls, duration_s |-> None]
Other(f, t) == [type |-> "taxi", from |-> f, to |-> t, lines |-> <<>>, duration_s |-> None]
Plan(pid, d, ls) == [kind |-> "object", personId |-> pid, depart |-> d, legs |-> ls]
NotAPlan == [kind |-> "string", personId |-> "", depart |-> 0, legs |-> <<>>]

\* Stop lists with strictly increasing times over the stops sA and sB.
IncTimes(n) == {t \in [1..n -> Times] : \A i \in 1..(n - 1) : t[i] < t[i + 1]}
StopLists(n) ==
    {[i \in 1..n |-> StopEntry(s[i], Some(t[i]))] : s \in [1..n -> {"sA", "sB"}], t \in IncTimes(n)}
AllStopLists == UNION {StopLists(n) : n \in 2..MaxStopTimes}
DirectLists == {l \in StopLists(2) : l[1].busStop = "sA" /\ l[2].busStop = "sB"}
\* A <stop> without "until", or without "busStop", in front of a direct list.
DamagedLists ==
    {<<StopEntry("sA", None)>> \o l : l \in DirectLists}
        \cup {<<StopEntry(NoStop, Some(0))>> \o l : l \in DirectLists}

\* Ride-search inputs: one vehicle of any shape and one direct vehicle, in
\* either order, in one routes file.
SearchTimetables ==
    {<<<<Vehicle("v1", a, x), Vehicle("v2", b, y)>>>> :
        a \in {L1, L2}, b \in {L1, L2}, x \in AllStopLists \cup DamagedLists, y \in DirectLists}
    \cup
    {<<<<Vehicle("v1", b, y), Vehicle("v2", a, x)>>>> :
        a \in {L1, L2}, b \in {L1, L2}, x \in AllStopLists \cup DamagedLists, y \in DirectLists}
SearchPlans ==
    {Plan("p1", d, <<Ride(SA, SB, ls)>>) : d \in Times, ls \in {<<L1>>, <<BusL1, L2>>}}

\* Plan-structure inputs.
Durations == {None, Some(-1), Some(1)}
WalkLegs == {Walk(r[1], r[2], d) : r \in {<<E1, SA>>, <<SB, E1>>, <<E1, SX>>}, d \in Durations}
RideLegs ==
    {Ride(SA, SB, ls) : ls \in {<<>>, <<BusL1>>, <<L2>>, <<L1, BusL1>>, <<TramL1>>}}
        \cup {Ride(E1, SB, <<BusL1>>), Ride(SB, SA, <<BusL1>>)}
OtherLegs == {Other(SA, SB), Other(SX, SB)}
BadLegs == {Walk(BadRef, SA, None), Ride(SA, BadRef, <<BusL1>>)}
LegUniverse == WalkLegs \cup RideLegs \cup OtherLegs \cup BadLegs

\* The loop line: sA is served at 0 and again at 2.
LoopVehicle ==
    Vehicle("v1", L1, <<StopEntry("sA", Some(0)), StopEntry("sB", Some(1)),
                         StopEntry("sA", Some(2)), StopEntry("sB", Some(3))>>)
TT1 == <<<<Vehicle("v1", L1, <<StopEntry("sA", Some(1)), StopEntry("sB", Some(2))>>)>>>>
TT2 == <<<<LoopVehicle>>,
         <<Vehicle("v2", L2, <<StopEntry("sB", Some(1)), StopEntry("sA", Some(3))>>)>>>>
SmallTimetables == {<<>>, TT1, TT2}

StructurePlans ==
    {Plan("p1", d, ls) : d \in 0..1, ls \in SeqsUpTo(LegUniverse, MaxLegs)}
        \cup {Plan("", 0, ls) : ls \in SeqsUpTo(LegUniverse, 1)}

\* Scenario B of the specification scaled to the time range: depart 0, a
\* 1 s access walk, L1 boarding sA at 1 and reaching sB at 2, an egress walk.
ScenarioB == Plan("p1", 0, <<Walk(E1, SA, Some(1)), Ride(SA, SB, <<BusL1>>), Walk(SB, E1, Some(1))>>)

\* Batch inputs.
BatchPlans ==
    {ScenarioB,
     Plan("p2", 1, <<Ride(SA, SB, <<L2>>)>>),
     Plan("p3", 0, <<Walk(BadRef, SA, None)>>),
     Plan("p4", 0, <<>>),
     NotAPlan}

KnownStopSets == {None, Some({"sA", "sB"})}

InitSearch ==
    /\ plans \in {<<p>> : p \in SearchPlans}
    /\ known_stops = None
    /\ routes_files \in SearchTimetables

InitStructure ==
    /\ plans \in {<<p>> : p \in StructurePlans \cup {ScenarioB}}
    /\ known_stops \in KnownStopSets
    /\ routes_files \in SmallTimetables

\* Clock inputs: one vehicle whose stop times run backward, stand still or
\* run forward, and a plan that walks to sA, rides to sB and rides back.
ClockTimetables ==
    {<<<<Vehicle("v1", L1, <<StopEntry("sA", Some(t[1])), StopEntry("sB", Some(t[2])),
                             StopEntry("sA", Some(t[3]))>>)>>>> :
        t \in {<<2, 1, 0>>, <<2, 2, 2>>, <<1, 2, 3>>}}
ClockPlans ==
    {Plan("p1", d, <<Walk(E1, SA, w), Ride(SA, SB, <<L1>>), Ride(SB, SA, <<L1>>)>>) :
        d \in 0..1, w \in Durations}

InitClock ==
    /\ plans \in {<<p>> : p \in ClockPlans}
    /\ known_stops = None
    /\ routes_files \in ClockTimetables

InitBatch ==
    /\ plans \in SeqsUpTo(BatchPlans, MaxPlans)
    /\ known_stops = Some({"sA", "sB"})
    /\ routes_files = TT1

(***************************************************************************)
(* od_to_explicit_chains.py                                                *)
(***************************************************************************)
\* The empty string as a line label.
NoLine == Label("", "")

\* TraCI stage type codes the converter tests for
STAGE_WALKING == 2
STAGE_DRIVING == 3

Stage(ty, line, dest, len) == [type |-> ty, line |-> line, destStop |-> dest, length |-> len]

\* "is_ride = st_type == 3 or (line != "" and dest_stop != "")"
is_ride(st) == st.type = Some(STAGE_DRIVING) \/ (st.line # NoLine /\ st.destStop # "")
\* "is_walk = st_type == 2 or (line == "" and st_type is not None)"
is_walk(st) == st.type = Some(STAGE_WALKING) \/ (st.line = NoLine /\ st.type # None)

\* The f"p{idx}" default of _parse_ods
DefaultPersonId(i) == <<"p0", "p1", "p2", "p3">>[i + 1]

\* _parse_ods raises ValueError: the list is empty or an item has no edges.
parse_ods_raises(items) ==
    items = <<>> \/ \E k \in 1..Len(items) : items[k].fromEdge = "" \/ items[k].toEdge = ""

parse_ods(items) ==
    [k \in 1..Len(items) |->
        [person_id |-> IF items[k].personId = "" THEN DefaultPersonId(k - 1)
                       ELSE items[k].personId,
         depart |-> items[k].depart,
         from_edge |-> items[k].fromEdge,
         to_edge |-> items[k].toEdge]]

Raised(why, k) == [raised |-> TRUE, error |-> why, stage |-> k, legs |-> <<>>]

\* _stages_to_plan: the loop over the stages from stage k (from 1) on, with
\* the running anchor current_ref.  A raise ends it.
RECURSIVE StagesLoop(_, _, _, _, _)
StagesLoop(stages, k, to_edge, current_ref, out) ==
    IF k > Len(stages) THEN [raised |-> FALSE, error |-> "", stage |-> 0, legs |-> out]
    ELSE LET st == stages[k] IN
         IF is_ride(st)
         THEN IF current_ref.kind # "busStop" THEN Raised("ride_not_from_stop", k - 1)
              ELSE IF st.destStop = "" THEN Raised("ride_empty_destStop", k - 1)
              ELSE StagesLoop(stages, k + 1, to_edge, StopRef(st.destStop),
                              Append(out, Ride(current_ref, StopRef(st.destStop),
                                               IF st.line # NoLine THEN <<st.line>> ELSE <<>>)))
         ELSE IF is_walk(st)
         THEN IF st.destStop # ""
              THEN StagesLoop(stages, k + 1, to_edge, StopRef(st.destStop),
                              Append(out, Walk(current_ref, StopRef(st.destStop), None)))
              ELSE StagesLoop(stages, k + 1, to_edge, EdgeRef(to_edge),
                              Append(out, Walk(current_ref, EdgeRef(to_edge), None)))
         ELSE Raised("unsupported_stage", k - 1)

\* Variant: the running anchor starts at the destination edge.
stages_to_plan_FromDestination(stages, from_edge, to_edge) ==
    StagesLoop(stages, 1, to_edge, EdgeRef(to_edge), <<>>)

\* _stages_to_plan: [raised, error, stage, legs]
stages_to_plan(stages, from_edge, to_edge) ==
    StagesLoop(stages, 1, to_edge, EdgeRef(from_edge), <<>>)

\* _plan_stats_from_stages (the cost and travel-time sums are left out)
RideCount(stages) == Cardinality({k \in 1..Len(stages) : is_ride(stages[k])})

plan_stats_from_stages(stages) ==
    LET ride_count == RideCount(stages)
        n == Len(stages)
    IN [rideCount |-> ride_count,
        transferCount |-> Max2(0, ride_count - 1),
        accessWalkLength |->
            IF n > 0 /\ is_walk(stages[1]) /\ stages[1].destStop # ""
            THEN Some(stages[1].length) ELSE None,
        egressWalkLength |->
            IF n > 0 /\ is_walk(stages[n]) /\ stages[n].destStop = ""
            THEN Some(stages[n].length) ELSE None]

\* Variant: the egress walk is not tested.
meets_constraints_NoEgress(stats, max_access_egress_walk_m, max_transfers_bound) ==
    IF stats.transferCount > max_transfers_bound THEN FALSE
    ELSE IF stats.accessWalkLength # None
            /\ Val(stats.accessWalkLength) > max_access_egress_walk_m THEN FALSE
    ELSE TRUE

\* _meets_constraints with both bounds given
meets_constraints(stats, max_access_egress_walk_m, max_transfers_bound) ==
    IF stats.transferCount > max_transfers_bound THEN FALSE
    ELSE IF stats.accessWalkLength # None
            /\ Val(stats.accessWalkLength) > max_access_egress_walk_m THEN FALSE
    ELSE IF stats.egressWalkLength # None
            /\ Val(stats.egressWalkLength) > max_access_egress_walk_m THEN FALSE
    ELSE TRUE

\* _relaxation_grid: for t in max_transfers_seq: for w in walk_limits_m
RECURSIVE GridRows(_, _, _)
GridRows(walk_limits_m, max_transfers_seq, k) ==
    IF k > Len(max_transfers_seq) THEN <<>>
    ELSE [j \in 1..Len(walk_limits_m) |-> <<walk_limits_m[j], max_transfers_seq[k]>>]
             \o GridRows(walk_limits_m, max_transfers_seq, k + 1)

relaxation_grid(walk_limits_m, max_transfers_seq) == GridRows(walk_limits_m, max_transfers_seq, 1)

\* main: "for walk_limit, max_transfers in relax: if _meets_constraints ... break"
RECURSIVE AcceptedFrom(_, _, _)
AcceptedFrom(stats, relax, k) ==
    IF k > Len(relax) THEN None
    ELSE IF meets_constraints(stats, relax[k][1], relax[k][2]) THEN Some(relax[k])
    ELSE AcceptedFrom(stats, relax, k + 1)

\* Variant: when no entry accepts, the last entry of the grid is taken.
Accepted_Fallback(stats, grid) ==
    IF AcceptedFrom(stats, grid, 1) = None /\ Len(grid) > 0 THEN Some(grid[Len(grid)])
    ELSE AcceptedFrom(stats, grid, 1)

Accepted(stats, grid) == AcceptedFrom(stats, grid, 1)

\* What no step of the planner changes: its inputs and the other tools.
planInputs == <<od_items, oracle, walk_limit, max_transfers, valVars, stitchVars, matchVars,
                convVars, headingVars>>

od == ods[od_i]
relax == relaxation_grid(walk_limit, max_transfers)
Item(status) ==
    [personId |-> od.person_id, depart |-> od.depart, fromEdge |-> od.from_edge,
     toEdge |-> od.to_edge, status |-> status]

\* main: ods = _parse_ods(_load_json(od_path)); a ValueError ends the run.
ParseOdsRaises ==
    /\ planner_pc = "start"
    /\ parse_ods_raises(od_items)
    /\ planner_pc' = "config_error"
    /\ planner_exit' = Some(1)
    /\ UNCHANGED <<planInputs, ods, od_i, chains, results>>

ParseOds ==
    /\ planner_pc = "start"
    /\ ~parse_ods_raises(od_items)
    /\ ods' = parse_ods(od_items)
    /\ planner_pc' = "loop"
    /\ UNCHANGED <<planInputs, od_i, chains, results, planner_exit>>

\* One pass of "for od in ods": findIntermodalRoute raises, the except
\* branch records the item with the status "error" it was created with.
PlanOracleRaises ==
    /\ planner_pc = "loop" /\ od_i <= Len(ods)
    /\ oracle[od_i].raises
    /\ results' = Append(results, Item("error") @@ [error |-> "oracle"])
    /\ od_i' = od_i + 1
    /\ UNCHANGED <<planInputs, planner_pc, ods, chains, planner_exit>>

\* No grid entry accepts the statistics.
PlanNoSolution ==
    /\ planner_pc = "loop" /\ od_i <= Len(ods)
    /\ ~oracle[od_i].raises
    /\ LET stats == plan_stats_from_stages(oracle[od_i].stages)
       IN /\ Accepted(stats, relax) = None
          /\ results' = Append(results, Item("no_solution_under_constraints")
                                            @@ [stats |-> stats])
    /\ od_i' = od_i + 1
    /\ UNCHANGED <<planInputs, planner_pc, ods, chains, planner_exit>>

\* A grid entry accepts, _stages_to_plan raises ValueError.
PlanConvertRaises ==
    /\ planner_pc = "loop" /\ od_i <= Len(ods)
    /\ ~oracle[od_i].raises
    /\ LET stats == plan_stats_from_stages(oracle[od_i].stages)
           conv == stages_to_plan(oracle[od_i].stages, od.from_edge, od.to_edge)
       IN /\ Accepted(stats, relax) # None
          /\ conv.raised
          /\ results' = Append(results, Item("error") @@ [error |-> conv.error])
    /\ od_i' = od_i + 1
    /\ UNCHANGED <<planInputs, planner_pc, ods, chains, planner_exit>>

\* A grid entry accepts and the chain is built.
PlanAccepted ==
    /\ planner_pc = "loop" /\ od_i <= Len(ods)
    /\ ~oracle[od_i].raises
    /\ LET stats == plan_stats_from_stages(oracle[od_i].stages)
           conv == stages_to_plan(oracle[od_i].stages, od.from_edge, od.to_edge)
           accepted == Accepted(stats, relax)
       IN /\ accepted # None
          /\ ~conv.raised
          /\ chains' = Append(chains, Plan(od.person_id, od.depart, conv.legs))
          /\ results' = Append(results,
                Item("ok") @@ [acceptedWalkLimit |-> Val(accepted)[1],
                               acceptedMaxTransfers |-> Val(accepted)[2],
                               stats |-> stats])
    /\ od_i' = od_i + 1
    /\ UNCHANGED <<planInputs, planner_pc, ods, planner_exit>>

\* "return 0" at the end of main
PlannerReturn(res) == 0

\* After the loop: the chains, the report and persons.rou.xml are written.
PlannerFinish ==
    /\ planner_pc = "loop" /\ od_i > Len(ods)
    /\ planner_pc' = "done"
    /\ planner_exit' = Some(PlannerReturn(results))
    /\ UNCHANGED <<planInputs, ods, od_i, chains, results>>

PlanNext ==
    \/ ParseOdsRaises
    \/ ParseOds
    \/ PlanOracleRaises
    \/ PlanNoSolution
    \/ PlanConvertRaises
    \/ PlanAccepted
    \/ PlannerFinish

(***************************************************************************)
(* The inputs the planner is checked on                                    *)
(***************************************************************************)
\* Every combination of type tag, line and destination stop, and walks of
\* every length.
StageTypes == {None, Some(1), Some(STAGE_WALKING), Some(STAGE_DRIVING)}
StageUniverse ==
    {Stage(ty, l, d, 0) : ty \in StageTypes, l \in {NoLine, BusL1}, d \in {"", "sA"}}
        \cup {Stage(Some(STAGE_WALKING), NoLine, d, len) : d \in {"", "sA"}, len \in 1..MaxWalkLength}

Answer(stages) == [raises |-> FALSE, stages |-> stages]
OracleRaises == [raises |-> TRUE, stages |-> <<>>]

ODItem(pid, d, f, t) == [personId |-> pid, depart |-> d, fromEdge |-> f, toEdge |-> t]

\* --walk-limit / --max-transfers lists, in and out of ascending order
GridArgs == {<<<<1, 2>>, <<0, 1>>>>, <<<<2, 1>>, <<1, 0>>>>, <<<<1>>, <<0>>>>}

\* One request, any stage sequence.
InitOneOD ==
    /\ od_items = <<ODItem("p1", 0, "e1", "e2")>>
    /\ oracle \in {<<Answer(st)>> : st \in SeqsUpTo(StageUniverse, MaxStages)}
    /\ \E g \in GridArgs : walk_limit = g[1] /\ max_transfers = g[2]

\* Answers of a batch: a feasible trip, too long a walk, a ride without
\* destination stop, and a raise.
BatchAnswers ==
    {Answer(<<Stage(Some(STAGE_WALKING), NoLine, "sA", 1),
              Stage(Some(STAGE_DRIVING), BusL1, "sB", 0),
              Stage(Some(STAGE_WALKING), NoLine, "", 1)>>),
     Answer(<<Stage(Some(STAGE_WALKING), NoLine, "", MaxWalkLength + 1)>>),
     Answer(<<Stage(Some(STAGE_WALKING), NoLine, "sA", 1),
              Stage(Some(STAGE_DRIVING), BusL1, "", 0)>>),
     OracleRaises}

BatchODItems ==
    {ODItem("p1", 0, "e1", "e2"), ODItem("", 1, "e1", "e2"), ODItem("p9", 0, "", "e2")}

InitODBatch ==
    /\ od_items \in SeqsUpTo(BatchODItems, MaxOds)
    /\ oracle \in [1..Len(od_items) -> BatchAnswers]
    /\ walk_limit = <<1, 2>>
    /\ max_transfers = <<0, 1>>

PlanStart ==
    /\ planner_pc = "start"
    /\ ods = <<>>
    /\ od_i = 1
    /\ chains = <<>>
    /\ results = <<>>
    /\ planner_exit = None

\* The planner as constructed and not run.
PlanIdle ==
    /\ od_items = <<>> /\ oracle = <<>> /\ walk_limit = <<>> /\ max_transfers = <<>>
    /\ PlanStart

\* The validator as constructed and not run.
ValStart ==
    /\ pc = "main"
    /\ plan_i = 1
    /\ per_person = <<>>
    /\ ok_count = 0
    /\ exit_status = None
    /\ LocalsIdle

ValIdle == plans = <<>> /\ known_stops = None /\ routes_files = <<>> /\ ValStart

(***************************************************************************)
(* fill_pt_route_edges_and_prune.py                                        *)
(***************************************************************************)
\* A lane id is the edge id, "_" and the lane index.
Lane(e, i) == [edge |-> e, index |-> i]

\* _edge_from_lane: lane_id.rsplit("_", 1)[0]
edge_from_lane(lane_id) == lane_id.edge

\* A <busStop> element: id, the value of <param key="edge"> ("" without it),
\* the lane attribute, startPos and endPos (None when absent or not a number).
\* Positions are whole multiples of the tolerance of the downstream test.
BusStop(id, edge_param, lane, sp, ep) ==
    [id |-> id, edge |-> edge_param, lane |-> lane, startPos |-> sp, endPos |-> ep]

\* dict.get
Get(mapping, key) == IF key \in DOMAIN mapping THEN Some(mapping[key]) ELSE None

\* The last element of the files among those at the positions ks with this
\* id: the one whose entry stays in the dict.
LastOf(adds, id, ks) ==
    adds[CHOOSE k \in ks : adds[k].id = id /\ \A j \in ks : adds[j].id = id => j <= k]

HasEdge(bs) == bs.id # "" /\ (bs.edge # "" \/ bs.lane # None)

\* _load_stop_edge_map: the edge param when it has a value, else the edge
\* of the lane attribute.
load_stop_edge_map(adds) ==
    [id \in {adds[k].id : k \in {j \in 1..Len(adds) : HasEdge(adds[j])}} |->
        LET bs == LastOf(adds, id, {j \in 1..Len(adds) : HasEdge(adds[j])})
        IN IF bs.edge # "" THEN bs.edge ELSE edge_from_lane(Val(bs.lane))]

HasStartPos(bs) == bs.id # "" /\ bs.startPos # None

\* _load_stop_startpos_map
load_stop_startpos_map(adds) ==
    [id \in {adds[k].id : k \in {j \in 1..Len(adds) : HasStartPos(adds[j])}} |->
        Val(LastOf(adds, id, {j \in 1..Len(adds) : HasStartPos(adds[j])}).startPos)]

HasPosRange(bs) == bs.id # "" /\ (bs.startPos # None \/ bs.endPos # None)

\* _load_stop_posrange_map: (start, end), each of them possibly None
load_stop_posrange_map(adds) ==
    [id \in {adds[k].id : k \in {j \in 1..Len(adds) : HasPosRange(adds[j])}} |->
        LET bs == LastOf(adds, id, {j \in 1..Len(adds) : HasPosRange(adds[j])}) IN <<bs.startPos, bs.endPos>>]

\* A <route> element; stops is _stops_sequence(route_elem).
Route(id, stops) == [id |-> id, stops |-> stops]
stops_sequence(route_elem) == route_elem.stops

\* A <vehicle> element; route is "" without the attribute.
VehicleElem(id, route) == [id |-> id, route |-> route]

\* _dedupe_consecutive
RECURSIVE dedupe_consecutive(_)
dedupe_consecutive(seq) ==
    IF Len(seq) <= 1 THEN seq
    ELSE LET out == dedupe_consecutive(SubSeq(seq, 1, Len(seq) - 1))
         IN IF out[Len(out)] # seq[Len(seq)] THEN Append(out, seq[Len(seq)]) ELSE out

\* eps of _is_stop_sequence_downstream, the unit positions are counted in
eps == 1

\* "for j in range(start, len(route_edges)): if route_edges[j] == e": the
\* first such j (from 0), None when there is none.
FindFrom(route_edges, e, start) ==
    LET js == {j \in start..(Len(route_edges) - 1) : j >= 0 /\ route_edges[j + 1] = e}
    IN IF js = {} THEN None ELSE Some(CHOOSE j \in js : \A i \in js : j <= i)

\* The test on two stops matched to the same occurrence of an edge.
SamePositionOk(pos_start, prev_pos_end) == ~(pos_start + eps < prev_pos_end)

\* Variant: no test of the positions.
SamePositionOk_Unchecked(pos_start, prev_pos_end) == TRUE

\* The loop "for sid in stop_ids" of _is_stop_sequence_downstream from the
\* k-th stop on, with prev_edge, prev_pos_end and idx as the loop left them.
RECURSIVE DownstreamLoop(_, _, _, _, _, _, _, _, _)
DownstreamLoop(route_edges, stop_ids, k, edge_of, startpos_of, posrange_of, prev_edge, prev_pos_end, matched) ==
    IF k > Len(stop_ids) THEN TRUE
    ELSE LET sid == stop_ids[k]
             e == Get(edge_of, sid)
         IN IF e = None \/ e = Some("") THEN FALSE
            ELSE LET start == IF e = prev_edge THEN matched ELSE matched + 1
                     found == FindFrom(route_edges, Val(e), start)
                     range == IF sid \in DOMAIN posrange_of THEN posrange_of[sid]
                              ELSE <<None, None>>
                     pos_start == IF range[1] = None THEN Get(startpos_of, sid)
                                  ELSE range[1]
                     pos_end == IF range[2] = None THEN pos_start ELSE range[2]
                 IN IF found = None THEN FALSE
                    ELSE IF /\ prev_edge = e /\ Val(found) = matched
                            /\ prev_pos_end # None /\ pos_start # None
                            /\ ~SamePositionOk(Val(pos_start), Val(prev_pos_end))
                    THEN FALSE
                    ELSE DownstreamLoop(route_edges, stop_ids, k + 1, edge_of, startpos_of,
                                        posrange_of, e, pos_end, Val(found))

\* _is_stop_sequence_downstream
is_stop_sequence_downstream(route_edges, stop_ids, edge_of, startpos_of, posrange_of) ==
    IF route_edges = <<>> \/ Len(stop_ids) < 2 THEN FALSE
    ELSE DownstreamLoop(route_edges, stop_ids, 1, edge_of, startpos_of, posrange_of,
                        None, None, -1)

\* Stats()
NewStats ==
    [routes_total |-> 0, routes_kept |-> 0, routes_dropped_missing_stop |-> 0,
     routes_dropped_no_path |-> 0, routes_dropped_duarouter_missing |-> 0,
     routes_dropped_not_downstream |-> 0, vehicles_total |-> 0, vehicles_kept |-> 0,
     vehicles_dropped_route_missing |-> 0, segments_total |-> 0, segments_cached |-> 0]

\* "routes = {r.get("id"): r for r in root.findall("route") if r.get("id")}":
\* the ids in the order they first occur, each with its last element.
routes_by_id(elems) ==
    LET firsts == SelectSeq([k \in 1..Len(elems) |-> k],
                            LAMBDA k : /\ elems[k].id # ""
                                       /\ \A j \in 1..(k - 1) : elems[j].id # elems[k].id)
    IN [n \in 1..Len(firsts) |->
           elems[CHOOSE k \in 1..Len(elems) :
                    /\ elems[k].id = elems[firsts[n]].id
                    /\ \A j \in (k + 1)..Len(elems) : elems[j].id # elems[k].id]]

routes == routes_by_id(st_routes)

\* The inputs of the run and the other tools.
stitchInputs == <<additional, st_routes, st_vehicles, net, method, computed,
                  valVars, planVars, matchVars, convVars, headingVars>>

stop_to_edge == load_stop_edge_map(additional)
stop_to_startpos == load_stop_startpos_map(additional)
stop_to_posrange == load_stop_posrange_map(additional)

\* fill_edges_and_prune up to the first loop: the files are parsed and the
\* totals are counted.
StitchStart ==
    /\ st_pc = "start"
    /\ st_stats' = [NewStats EXCEPT !.routes_total = Len(routes),
                                    !.vehicles_total = Len(st_vehicles)]
    /\ st_pc' = "collect"
    /\ UNCHANGED <<stitchInputs, route_i, stop_edges_of, seg_i, full, cache, oracle_calls,
                   valid_routes, kept_vehicles, st_output, stitch_exit>>

\* The stop_edges list the first loop builds for a stop sequence: emptied
\* at the first stop without an edge.
StopEdges(seq) ==
    IF \E k \in 1..Len(seq) : Get(stop_to_edge, seq[k]) \in {None, Some("")} THEN <<>>
    ELSE [k \in 1..Len(seq) |-> stop_to_edge[seq[k]]]

MissingStop(r) == Len(stops_sequence(r)) < 2 \/ Len(StopEdges(stops_sequence(r))) < 2

\* Variant: the route is counted as dropped and handed on all the same.
CollectMissingStop_StillRouted ==
    /\ st_pc = "collect" /\ route_i <= Len(routes)
    /\ MissingStop(routes[route_i])
    /\ st_stats' = [st_stats EXCEPT !.routes_dropped_missing_stop = @ + 1]
    /\ stop_edges_of' = Append(stop_edges_of,
            [rid |-> routes[route_i].id,
             stop_edges |-> StopEdges(stops_sequence(routes[route_i])),
             stop_ids |-> stops_sequence(routes[route_i])])
    /\ route_i' = route_i + 1
    /\ UNCHANGED <<stitchInputs, st_pc, seg_i, full, cache, oracle_calls,
                   valid_routes, kept_vehicles, st_output, stitch_exit>>

\* First loop, a route with fewer than two stops or a stop without an edge.
CollectMissingStop ==
    /\ st_pc = "collect" /\ route_i <= Len(routes)
    /\ MissingStop(routes[route_i])
    /\ st_stats' = [st_stats EXCEPT !.routes_dropped_missing_stop = @ + 1]
    /\ route_i' = route_i + 1
    /\ UNCHANGED <<stitchInputs, st_pc, stop_edges_of, seg_i, full, cache, oracle_calls,
                   valid_routes, kept_vehicles, st_output, stitch_exit>>

\* First loop, the stop edges and stop ids of the route are recorded.
CollectStopEdges ==
    /\ st_pc = "collect" /\ route_i <= Len(routes)
    /\ ~MissingStop(routes[route_i])
    /\ stop_edges_of' = Append(stop_edges_of,
            [rid |-> routes[route_i].id,
             stop_edges |-> StopEdges(stops_sequence(routes[route_i])),
             stop_ids |-> stops_sequence(routes[route_i])])
    /\ route_i' = route_i + 1
    /\ UNCHANGED <<stitchInputs, st_pc, st_stats, seg_i, full, cache, oracle_calls,
                   valid_routes, kept_vehicles, st_output, stitch_exit>>

\* "if method == "sumolib" ... elif method == "duarouter""
BeginRouting ==
    /\ st_pc = "collect" /\ route_i > Len(routes)
    /\ st_pc' = method
    /\ route_i' = 1
    /\ UNCHANGED <<stitchInputs, st_stats, stop_edges_of, seg_i, full, cache, oracle_calls,
                   valid_routes, kept_vehicles, st_output, stitch_exit>>

\* The route the second loop is at.
cur == stop_edges_of[route_i]
seg_key == <<cur.stop_edges[seg_i + 1], cur.stop_edges[seg_i + 2]>>

\* _shortest_path_edges_cached: the cached entry, else what the network
\* answers (None for no path or an exception).
shortest_path_edges_cached(key) == IF key \in DOMAIN cache THEN cache[key] ELSE net[key]

\* The cache after the call: a missing key is stored, an entry is kept.
CacheAfter(key) == IF key \in DOMAIN cache THEN cache ELSE cache @@ (key :> net[key])

\* "if not seg"
NoPath(seg) == seg = None \/ seg = Some(<<>>)

\* Variant: the network is asked whether or not the pair is stored.
SegmentCounted_AlwaysAsks ==
    /\ cache' = [key \in DOMAIN cache \cup {seg_key} |-> net[key]]
    /\ oracle_calls' = Append(oracle_calls, seg_key)

\* The counters and the cache after one pass of the segment loop.
SegmentCounted ==
    /\ cache' = CacheAfter(seg_key)
    /\ oracle_calls' = IF seg_key \in DOMAIN cache THEN oracle_calls
                       ELSE Append(oracle_calls, seg_key)

SegmentStats ==
    [st_stats EXCEPT !.segments_total = @ + 1,
                     !.segments_cached = IF seg_key \in DOMAIN cache THEN @ + 1 ELSE @]

\* Segment loop: the segment has a path, which is appended (without its
\* first edge after the first segment).
SegmentFound ==
    /\ st_pc = "sumolib" /\ route_i <= Len(stop_edges_of)
    /\ seg_i < Len(cur.stop_edges) - 1
    /\ LET seg == shortest_path_edges_cached(seg_key)
       IN /\ ~NoPath(seg)
          /\ full' = IF seg_i = 0 THEN full \o Val(seg) ELSE full \o Tail(Val(seg))
    /\ SegmentCounted
    /\ st_stats' = SegmentStats
    /\ seg_i' = seg_i + 1
    /\ UNCHANGED <<stitchInputs, st_pc, route_i, stop_edges_of, valid_routes,
                   kept_vehicles, st_output, stitch_exit>>

\* Variant: at a segment without path the route is kept with the edges
\* found so far.
SegmentNoPath_KeepsPartial ==
    /\ st_pc = "sumolib" /\ route_i <= Len(stop_edges_of)
    /\ seg_i < Len(cur.stop_edges) - 1
    /\ NoPath(shortest_path_edges_cached(seg_key))
    /\ SegmentCounted
    /\ st_stats' = [SegmentStats EXCEPT !.routes_kept = @ + 1]
    /\ valid_routes' = Append(valid_routes, [id |-> cur.rid, edges |-> full])
    /\ route_i' = route_i + 1
    /\ seg_i' = 0
    /\ full' = <<>>
    /\ UNCHANGED <<stitchInputs, st_pc, stop_edges_of, kept_vehicles, st_output, stitch_exit>>

\* Segment loop: no path; "ok = False; break", the route is dropped.
SegmentNoPath ==
    /\ st_pc = "sumolib" /\ route_i <= Len(stop_edges_of)
    /\ seg_i < Len(cur.stop_edges) - 1
    /\ NoPath(shortest_path_edges_cached(seg_key))
    /\ SegmentCounted
    /\ st_stats' = [SegmentStats EXCEPT !.routes_dropped_no_path = @ + 1]
    /\ route_i' = route_i + 1
    /\ seg_i' = 0
    /\ full' = <<>>
    /\ UNCHANGED <<stitchInputs, st_pc, stop_edges_of, valid_routes,
                   kept_vehicles, st_output, stitch_exit>>

Downstream(edges) ==
    is_stop_sequence_downstream(edges, cur.stop_ids, stop_to_edge, stop_to_startpos,
                                stop_to_posrange)

\* Variant: a route failing the downstream test is dropped and not counted.
RouteNotDownstream_Uncounted ==
    /\ st_pc = "sumolib" /\ route_i <= Len(stop_edges_of)
    /\ seg_i = Len(cur.stop_edges) - 1
    /\ full = <<>> \/ ~Downstream(full)
    /\ route_i' = route_i + 1
    /\ seg_i' = 0
    /\ full' = <<>>
    /\ UNCHANGED <<stitchInputs, st_pc, st_stats, stop_edges_of, cache, oracle_calls,
                   valid_routes, kept_vehicles, st_output, stitch_exit>>

\* After the segment loop: "if not ok or not full" (no edges at all), else
\* the downstream test fails.
RouteNotDownstream ==
    /\ st_pc = "sumolib" /\ route_i <= Len(stop_edges_of)
    /\ seg_i = Len(cur.stop_edges) - 1
    /\ full = <<>> \/ ~Downstream(full)
    /\ st_stats' = IF full = <<>>
                   THEN [st_stats EXCEPT !.routes_dropped_no_path = @ + 1]
                   ELSE [st_stats EXCEPT !.routes_dropped_not_downstream = @ + 1]
    /\ route_i' = route_i + 1
    /\ seg_i' = 0
    /\ full' = <<>>
    /\ UNCHANGED <<stitchInputs, st_pc, stop_edges_of, cache, oracle_calls, valid_routes,
                   kept_vehicles, st_output, stitch_exit>>

\* The clone of the route with its edges set.
KeptRoute(rid, edges) == [id |-> rid, edges |-> edges]

\* After the segment loop: the route is kept with the concatenated edges.
RouteKept ==
    /\ st_pc = "sumolib" /\ route_i <= Len(stop_edges_of)
    /\ seg_i = Len(cur.stop_edges) - 1
    /\ full # <<>> /\ Downstream(full)
    /\ valid_routes' = Append(valid_routes, KeptRoute(cur.rid, full))
    /\ st_stats' = [st_stats EXCEPT !.routes_kept = @ + 1]
    /\ route_i' = route_i + 1
    /\ seg_i' = 0
    /\ full' = <<>>
    /\ UNCHANGED <<stitchInputs, st_pc, stop_edges_of, cache, oracle_calls,
                   kept_vehicles, st_output, stitch_exit>>

\* _duarouter_compute_route_edges: a trip is written for a route whose
\* stop edges are at least two after _dedupe_consecutive; the edges duarouter
\* returned for it, <<>> when the output has none.
duarouter_edges(rid, stop_edges) ==
    IF Len(dedupe_consecutive(stop_edges)) < 2 THEN <<>>
    ELSE IF rid \in DOMAIN computed THEN computed[rid] ELSE <<>>

\* duarouter branch: nothing computed for the route.
DuaMissing ==
    /\ st_pc = "duarouter" /\ route_i <= Len(stop_edges_of)
    /\ duarouter_edges(cur.rid, cur.stop_edges) = <<>>
    /\ st_stats' = [st_stats EXCEPT !.routes_dropped_duarouter_missing = @ + 1]
    /\ route_i' = route_i + 1
    /\ UNCHANGED <<stitchInputs, st_pc, stop_edges_of, seg_i, full, cache, oracle_calls,
                   valid_routes, kept_vehicles, st_output, stitch_exit>>

DuaNotDownstream ==
    /\ st_pc = "duarouter" /\ route_i <= Len(stop_edges_of)
    /\ duarouter_edges(cur.rid, cur.stop_edges) # <<>>
    /\ ~Downstream(duarouter_edges(cur.rid, cur.stop_edges))
    /\ st_stats' = [st_stats EXCEPT !.routes_dropped_not_downstream = @ + 1]
    /\ route_i' = route_i + 1
    /\ UNCHANGED <<stitchInputs, st_pc, stop_edges_of, seg_i, full, cache, oracle_calls,
                   valid_routes, kept_vehicles, st_output, stitch_exit>>

DuaKept ==
    /\ st_pc = "duarouter" /\ route_i <= Len(stop_edges_of)
    /\ duarouter_edges(cur.rid, cur.stop_edges) # <<>>
    /\ Downstream(duarouter_edges(cur.rid, cur.stop_edges))
    /\ valid_routes' = Append(valid_routes,
                              KeptRoute(cur.rid, duarouter_edges(cur.rid, cur.stop_edges)))
    /\ st_stats' = [st_stats EXCEPT !.routes_kept = @ + 1]
    /\ route_i' = route_i + 1
    /\ UNCHANGED <<stitchInputs, st_pc, stop_edges_of, seg_i, full, cache, oracle_calls,
                   kept_vehicles, st_output, stitch_exit>>

\* Both branches: the loop over the routes has ended.
RoutingDone ==
    /\ st_pc \in {"sumolib", "duarouter"} /\ route_i > Len(stop_edges_of)
    /\ st_pc' = "vehicles"
    /\ route_i' = 1
    /\ UNCHANGED <<stitchInputs, st_stats, stop_edges_of, seg_i, full, cache, oracle_calls,
                   valid_routes, kept_vehicles, st_output, stitch_exit>>

valid_route_ids == {valid_routes[k].id : k \in 1..Len(valid_routes)}

\* Variant: a vehicle is kept when it names a route.
KeepsVehicle_AnyRoute(v) == v.route # ""

\* "if rid and rid in valid_route_ids"
KeepsVehicle(v) == v.route # "" /\ v.route \in valid_route_ids

VehicleKept ==
    /\ st_pc = "vehicles" /\ route_i <= Len(st_vehicles)
    /\ KeepsVehicle(st_vehicles[route_i])
    /\ kept_vehicles' = Append(kept_vehicles, st_vehicles[route_i])
    /\ st_stats' = [st_stats EXCEPT !.vehicles_kept = @ + 1]
    /\ route_i' = route_i + 1
    /\ UNCHANGED <<stitchInputs, st_pc, stop_edges_of, seg_i, full, cache, oracle_calls,
                   valid_routes, st_output, stitch_exit>>

VehicleDropped ==
    /\ st_pc = "vehicles" /\ route_i <= Len(st_vehicles)
    /\ ~KeepsVehicle(st_vehicles[route_i])
    /\ st_stats' = [st_stats EXCEPT !.vehicles_dropped_route_missing = @ + 1]
    /\ route_i' = route_i + 1
    /\ UNCHANGED <<stitchInputs, st_pc, stop_edges_of, seg_i, full, cache, oracle_calls,
                   valid_routes, kept_vehicles, st_output, stitch_exit>>

\* The position of a route id in sorted order.
RouteIds == <<"r1", "r2", "r3">>
RouteIdOrder(rid) == CHOOSE n \in 1..Len(RouteIds) : RouteIds[n] = rid

\* "for rid in sorted(valid_routes.keys())"
SortedRoutes ==
    LET kept == {valid_routes[k] : k \in 1..Len(valid_routes)}
        ByRank(n) == CHOOSE r \in kept :
                         Cardinality({q \in kept : RouteIdOrder(q.id) < RouteIdOrder(r.id)})
                             = n - 1
    IN [n \in 1..Len(valid_routes) |-> ByRank(n)]

\* "return 0" of main
StitcherReturn == 0

\* The output file is written with the kept routes in id order and the kept
\* vehicles in input order; main prints the counts and returns.
WriteOutput ==
    /\ st_pc = "vehicles" /\ route_i > Len(st_vehicles)
    /\ st_output' = Some([routes |-> SortedRoutes, vehicles |-> kept_vehicles])
    /\ st_pc' = "done"
    /\ stitch_exit' = Some(StitcherReturn)
    /\ UNCHANGED <<stitchInputs, st_stats, route_i, stop_edges_of, seg_i, full, cache,
                   oracle_calls, valid_routes, kept_vehicles>>

StitchNext ==
    \/ StitchStart
    \/ CollectMissingStop
    \/ CollectStopEdges
    \/ BeginRouting
    \/ SegmentFound
    \/ SegmentNoPath
    \/ RouteNotDownstream
    \/ RouteKept
    \/ DuaMissing
    \/ DuaNotDownstream
    \/ DuaKept
    \/ RoutingDone
    \/ VehicleKept
    \/ VehicleDropped
    \/ WriteOutput

(***************************************************************************)
(* The inputs the stitcher is checked on                                   *)
(***************************************************************************)
EdgeIds == <<"e1", "e2", "e3">>
Edges == {EdgeIds[k] : k \in 1..Len(EdgeIds)}
EdgePairs == {<<a, b>> : a \in Edges, b \in Edges}
EdgeNo(e) == CHOOSE n \in 1..Len(EdgeIds) : EdgeIds[n] = e

\* A one-way street e1 -> e2 -> e3: no way back.
NetChain ==
    [p \in EdgePairs |->
        IF EdgeNo(p[1]) <= EdgeNo(p[2])
        THEN Some([k \in 1..(EdgeNo(p[2]) - EdgeNo(p[1]) + 1) |-> EdgeIds[EdgeNo(p[1]) + k - 1]])
        ELSE None]

\* A ring e1 -> e2 -> e3 -> e1.
NetRing ==
    [p \in EdgePairs |->
        Some([k \in 1..(((EdgeNo(p[2]) - EdgeNo(p[1]) + Len(EdgeIds)) % Len(EdgeIds)) + 1) |->
                 EdgeIds[((EdgeNo(p[1]) + k - 2) % Len(EdgeIds)) + 1]])]

\* No edge is connected to another one.
NetIslands == [p \in EdgePairs |-> IF p[1] = p[2] THEN Some(<<p[1]>>) ELSE None]

StopIds == {"s1", "s2", "s3"}

\* startPos and endPos of a stop: both absent, or a range start <= end.
PosRanges ==
    {<<None, None>>}
        \cup {<<Some(r[1]), Some(r[2])>> : r \in {q \in (0..MaxPos) \X (0..MaxPos) : q[1] <= q[2]}}

\* Three stops on the lane e1_0 with every choice of positions, visited in
\* the order s1, s2, s3.
InitStitchPositions ==
    /\ additional \in {<<BusStop("s1", "", Some(Lane("e1", 0)), p1[1], p1[2]),
                         BusStop("s2", "", Some(Lane("e1", 0)), p2[1], p2[2]),
                         BusStop("s3", "", Some(Lane("e1", 0)), p3[1], p3[2])>> :
                           p1 \in PosRanges, p2 \in PosRanges, p3 \in PosRanges}
    /\ st_routes = <<Route("r1", <<"s1", "s2", "s3">>)>>
    /\ st_vehicles = <<VehicleElem("v1", "r1")>>
    /\ net = NetChain
    /\ method \in {"sumolib", "duarouter"}
    /\ computed = ("r1" :> <<"e1">>)

\* The busStop element of a stop on an edge, "" for a stop without lane.
StopOn(id, e) ==
    IF e = "" THEN BusStop(id, "", None, None, None)
    ELSE BusStop(id, "", Some(Lane(e, 0)), Some(0), Some(1))

\* One route with any stop sequence, the stops on any edges or on none,
\* stitched by pairwise shortest paths.
InitStitchEdges ==
    /\ additional \in {<<StopOn("s1", a), StopOn("s2", b), StopOn("s3", c)>> :
                           a \in Edges \cup {""}, b \in Edges \cup {""}, c \in Edges \cup {""}}
    /\ st_routes \in {<<Route("r1", seq)>> : seq \in SeqsUpTo(StopIds, MaxStops)}
    /\ st_vehicles = <<VehicleElem("v1", "r1")>>
    /\ net \in {NetChain, NetRing, NetIslands}
    /\ method = "sumolib"
    /\ computed = <<>>

\* s1, s2, s3 on e1, e2, e3; s4 has an edge param only, s5 has no lane.
BatchStops ==
    <<BusStop("s1", "", Some(Lane("e1", 0)), Some(0), Some(1)),
      BusStop("s2", "", Some(Lane("e2", 0)), Some(0), Some(1)),
      BusStop("s3", "", Some(Lane("e3", 1)), None, None),
      BusStop("s4", "e1", None, Some(1), Some(2)),
      BusStop("s5", "", None, None, None)>>

BatchRoutes ==
    {Route("r1", <<"s1", "s2">>), Route("r2", <<"s1", "s2", "s1">>),
     Route("r3", <<"s2", "s5">>), Route("r3", <<"s3", "s1">>),
     Route("r2", <<"s4", "s1">>), Route("", <<"s1", "s2">>), Route("r1", <<"s2", "s1">>)}

BatchVehicles == {VehicleElem("v1", "r1"), VehicleElem("v2", "r2"), VehicleElem("v3", "")}

\* What duarouter may return: nothing, a path for every route, a path that
\* misses e2.
BatchComputed ==
    {<<>>,
     [r \in {"r1", "r2", "r3"} |-> <<"e1", "e2", "e3", "e1">>],
     [r \in {"r1", "r3"} |-> <<"e3", "e1">>]}

InitStitchBatch ==
    /\ additional = BatchStops
    /\ st_routes \in SeqsUpTo(BatchRoutes, MaxRoutes)
    /\ st_vehicles \in SeqsUpTo(BatchVehicles, MaxVehicles)
    /\ \/ method = "sumolib" /\ net \in {NetChain, NetRing} /\ computed = <<>>
       \/ method = "duarouter" /\ net = NetChain /\ computed \in BatchComputed

StitchBegin ==
    /\ st_pc = "start"
    /\ st_stats = NewStats
    /\ route_i = 1
    /\ stop_edges_of = <<>>
    /\ seg_i = 0
    /\ full = <<>>
    /\ cache = <<>>
    /\ oracle_calls = <<>>
    /\ valid_routes = <<>>
    /\ kept_vehicles = <<>>
    /\ st_output = None
    /\ stitch_exit = None

\* The stitcher as constructed and not run.
StitchIdle ==
    /\ additional = <<>> /\ st_routes = <<>> /\ st_vehicles = <<>>
    /\ net = <<>> /\ method = "" /\ computed = <<>>
    /\ StitchBegin

(***************************************************************************)
(* map_stops_to_network_optimized.py                                       *)
(*                                                                         *)
(* Angles are whole degrees, distances whole map units, lane positions and *)
(* lengths hundredths of a map unit (what the ".2f" output holds).         *)
(***************************************************************************)
ROUTABLE_CLASSES ==
    <<"passenger", "bus", "tram", "rail_urban", "rail_electric", "rail", "rail_fast",
      "ship", "custom1", "custom2">>

\* An edge: its id (":" + name for an internal edge), its function, and
\* whether it has outgoing and incoming edges.
MEdge(colon, name, func, outgoing, incoming) ==
    [id |-> [prefix |-> colon, name |-> name], func |-> func,
     outgoing |-> outgoing, incoming |-> incoming]

\* A lane as the network answers for it: id, edge, the classes it allows,
\* the first and last point of its shape (None: fewer than two points), its
\* length, and for the stop at hand the closest position on it.
MLane(id, edge, allows, shape, length, pos) ==
    [id |-> id, edge |-> edge, allows |-> allows, shape |-> shape, length |-> length,
     pos |-> pos]

\* _is_valid_lane
is_valid_lane(lane, require_connectivity, vclasses) ==
    LET allowed_classes == IF vclasses = None \/ vclasses = Some(<<>>)
                           THEN ROUTABLE_CLASSES ELSE Val(vclasses)
    IN IF lane.edge.id.prefix = ":" THEN FALSE
       ELSE IF lane.edge.func \in {"internal", "connector", "crossing", "walkingarea"}
       THEN FALSE
       ELSE IF ~\E k \in 1..Len(allowed_classes) : allowed_classes[k] \in lane.allows
       THEN FALSE
       ELSE IF require_connectivity /\ (~lane.edge.outgoing \/ ~lane.edge.incoming)
       THEN FALSE
       ELSE TRUE

\* math.atan2(dy, dx) in degrees, for the directions the shapes have
Atan2Deg(dy, dx) ==
    IF dy = 0 THEN (IF dx > 0 THEN 0 ELSE 180)
    ELSE IF dx = 0 THEN (IF dy > 0 THEN 90 ELSE -90)
    ELSE IF dy > 0 THEN (IF dx > 0 THEN 45 ELSE 135)
    ELSE (IF dx > 0 THEN -45 ELSE -135)

\* _lane_heading_rad: the direction from the first to the last point.
lane_heading(lane) ==
    IF lane.shape = None THEN None
    ELSE LET dx == Val(lane.shape)[2][1] - Val(lane.shape)[1][1]
             dy == Val(lane.shape)[2][2] - Val(lane.shape)[1][2]
         IN IF dx = 0 /\ dy = 0 THEN None ELSE Some(Atan2Deg(dy, dx))

\* _angle_diff_rad: abs((a - b + pi) % (2 pi) - pi)
angle_diff(a, b) ==
    LET d == ((a - b + 180) % 360) - 180 IN IF d < 0 THEN -d ELSE d

\* The ladder of find_nearest_edge, cut at max_radius.
RadiusLadder == <<100, 500, 1000, 2000, 4000>>

radius_steps(maxr) ==
    IF maxr > 0
    THEN LET cut == SelectSeq(RadiusLadder, LAMBDA r : r <= maxr)
         IN IF cut = <<>> THEN <<maxr>> ELSE cut
    ELSE RadiusLadder

\* net.getNeighboringLanes(x, y, radius): the (lane, dist) pairs within the
\* radius, in the order the network lists them.
getNeighboringLanes(near, radius) == SelectSeq(near, LAMBDA c : c.dist <= radius)

\* The first radius of the ladder with any lane: "lanes" after the first
\* loop (empty when no radius has one).
RECURSIVE FirstLanes(_, _, _)
FirstLanes(near, steps, k) ==
    IF k > Len(steps) THEN <<>>
    ELSE IF getNeighboringLanes(near, steps[k]) # <<>> THEN getNeighboringLanes(near, steps[k])
    ELSE FirstLanes(near, steps, k + 1)

\* The first element of a stable sort: the first candidate no other one
\* is before by the key <<k1, k2>>.
KeyLess(a, b) == a[1] < b[1] \/ (a[1] = b[1] /\ a[2] < b[2])

FirstSorted(scored) ==
    scored[CHOOSE i \in 1..Len(scored) :
              /\ \A j \in 1..Len(scored) : ~KeyLess(scored[j].key, scored[i].key)
              /\ \A j \in 1..(i - 1) : KeyLess(scored[i].key, scored[j].key)]

\* pick_lane: a lane passes a preferred heading when it has a heading within
\* max_diff of it.
HeadingOk(lane, pref, max_diff) ==
    lane_heading(lane) # None /\ angle_diff(Val(lane_heading(lane)), pref) <= max_diff

\* pick_lane: None, or the chosen candidate (lane, dist).
pick_lane(candidates, require_connectivity, vclasses, pref, max_diff) ==
    LET valid == SelectSeq(candidates,
                     LAMBDA c : /\ is_valid_lane(c.lane, require_connectivity, vclasses)
                                /\ pref # None => HeadingOk(c.lane, Val(pref), max_diff))
        scored == [k \in 1..Len(valid) |->
                      [key |-> IF pref = None THEN <<0, valid[k].dist>>
                               ELSE <<angle_diff(Val(lane_heading(valid[k].lane)), Val(pref)),
                                      valid[k].dist>>,
                       cand |-> valid[k]]]
    IN IF scored = <<>> THEN None ELSE Some(FirstSorted(scored).cand)

\* Variant: the nearest lane, whatever its edge and classes.
pick_lane_ignore_heading_Unfiltered(candidates, require_connectivity, vclasses) ==
    LET scored == [k \in 1..Len(candidates) |->
                      [key |-> <<candidates[k].dist, 0>>, cand |-> candidates[k]]]
    IN IF scored = <<>> THEN None ELSE Some(FirstSorted(scored).cand)

\* pick_lane_ignore_heading
pick_lane_ignore_heading(candidates, require_connectivity, vclasses) ==
    LET valid == SelectSeq(candidates,
                     LAMBDA c : is_valid_lane(c.lane, require_connectivity, vclasses))
        scored == [k \in 1..Len(valid) |-> [key |-> <<valid[k].dist, 0>>, cand |-> valid[k]]]
    IN IF scored = <<>> THEN None ELSE Some(FirstSorted(scored).cand)

\* What find_nearest_edge returns: (edge_id, lane_id, pos, distance)
NearestEdge(edge_id, lane_id, pos, distance) ==
    [edge_id |-> edge_id, lane_id |-> lane_id, pos |-> pos, distance |-> distance]

NoNearestEdge == NearestEdge(None, None, None, None)

\* "return valid_lane.getEdge().getID(), valid_lane.getID(), pos, distance"
ResultOf(cand) ==
    NearestEdge(Some(cand.lane.edge.id), Some(cand.lane.id), Some(cand.lane.pos),
                Some(cand.dist))

\* "for radius in reversed(radius_steps)": from the k-th radius down, the
\* lane picked without the connectivity test and the lanes of the radius the
\* loop ended at.
RECURSIVE RelaxedLoop(_, _, _, _, _, _, _)
RelaxedLoop(near, steps, k, vclasses, pref, max_diff, lanes) ==
    IF k < 1 THEN [picked |-> None, lanes |-> lanes]
    ELSE LET here == getNeighboringLanes(near, steps[k])
             picked == pick_lane(here, FALSE, vclasses, pref, max_diff)
         IN IF picked # None THEN [picked |-> picked, lanes |-> here]
            ELSE RelaxedLoop(near, steps, k - 1, vclasses, pref, max_diff, here)

\* find_nearest_edge; stop.raises: the coordinate conversion or a network
\* query raises, which the function catches.
find_nearest_edge(stop, vclasses, maxr, pref, max_diff) ==
    LET steps == radius_steps(maxr)
        lanes == FirstLanes(stop.near, steps, 1)
        strict == pick_lane(lanes, TRUE, vclasses, pref, max_diff)
        relaxed == RelaxedLoop(stop.near, steps, Len(steps), vclasses, pref, max_diff, lanes)
        ignoring == pick_lane_ignore_heading(relaxed.lanes, FALSE, vclasses)
    IN IF stop.raises \/ lanes = <<>> THEN NoNearestEdge
       ELSE IF strict # None THEN ResultOf(Val(strict))
       ELSE IF relaxed.picked # None THEN ResultOf(Val(relaxed.picked))
       ELSE IF ignoring # None THEN ResultOf(Val(ignoring))
       ELSE NoNearestEdge

\* A <busStop> element of the stops file: geo is FALSE without a
\* geoPosition param; near is what the network holds around the stop.
StopElement(id, name, geo, near, raises) ==
    [id |-> id, name |-> name, geo |-> geo, near |-> near, raises |-> raises]

\* parse_stops_file
parse_stops_file(elems) == SelectSeq(elems, LAMBDA e : e.geo)

m_stops == parse_stops_file(stop_elems)
m_stop == m_stops[m_i]

\* "pref = preferred_headings.get(str(stop.get("id") or ""))"
PrefOf(stop) == Get(preferred_headings, stop.id)

Nearest(stop) ==
    find_nearest_edge(stop, require_vclasses, max_radius, PrefOf(stop), max_heading_diff_deg)

\* The lane of the network around a stop with this id.
LaneById(stop, lane_id) ==
    (CHOOSE c \in {stop.near[k] : k \in 1..Len(stop.near)} : c.lane.id = lane_id).lane

Min2(a, b) == IF a <= b THEN a ELSE b

\* 10 map units before and after the position, at least 0.1 long
STOP_MARGIN == 1000
STOP_MIN_LENGTH == 10

\* The busStop element written for a matched stop.
MappedStop(stop, res) ==
    LET lane_len == LaneById(stop, Val(res.lane_id)).length
        pos == Val(res.pos)
        start_pos == Max2(0, Min2(pos - STOP_MARGIN, lane_len))
        end_pos == Min2(lane_len, Max2(pos + STOP_MARGIN, start_pos + STOP_MIN_LENGTH))
    IN [id |-> stop.id, name |-> stop.name, lane |-> Val(res.lane_id),
        startPos |-> start_pos, endPos |-> end_pos, edge |-> Val(res.edge_id),
        distanceToLane |-> Val(res.distance)]

\* The inputs of the run and the other tools.
matchInputs == <<stop_elems, preferred_headings, require_vclasses, max_radius,
                 max_heading_diff_deg, output_xml, valVars, planVars, stitchVars,
                 convVars, headingVars>>

\* "if lane_id": not None (the id of a lane is never the empty string)
Truthy(o) == o # None

\* One pass of the loop: the stop is matched.
MatchMapped ==
    /\ m_pc = "loop" /\ m_i <= Len(m_stops)
    /\ Truthy(Nearest(m_stop).lane_id)
    /\ root' = Append(root, MappedStop(m_stop, Nearest(m_stop)))
    /\ mapped_count' = mapped_count + 1
    /\ m_i' = m_i + 1
    /\ UNCHANGED <<matchInputs, m_pc, unmapped_stops, written_files, m_exit>>

\* One pass of the loop: no lane.
MatchUnmapped ==
    /\ m_pc = "loop" /\ m_i <= Len(m_stops)
    /\ ~Truthy(Nearest(m_stop).lane_id)
    /\ unmapped_stops' = Append(unmapped_stops, m_stop)
    /\ m_i' = m_i + 1
    /\ UNCHANGED <<matchInputs, m_pc, root, mapped_count, written_files, m_exit>>

\* A file name is a sequence of pieces, ".add.xml" being one piece.
\* output_xml.replace('.add.xml', '_unmapped.json')
unmapped_file(name) ==
    [k \in 1..Len(name) |-> IF name[k] = ".add.xml" THEN "_unmapped.json" ELSE name[k]]

AdditionalFile(elems) == [kind |-> "additional", busStops |-> elems]
JsonFile(stops) == [kind |-> "json", stops |-> stops]

\* open(name, 'w'): the file is created or replaced.
Written(fs, name, content) ==
    [n \in (DOMAIN fs) \cup {name} |-> IF n = name THEN content ELSE fs[n]]

\* After the loop: the output file is written, the summary is printed, the
\* unmapped stops, if any, are saved.
MatchWrite ==
    /\ m_pc = "loop" /\ m_i > Len(m_stops)
    /\ Len(m_stops) > 0
    /\ written_files' =
           IF unmapped_stops # <<>>
           THEN Written(Written(written_files, output_xml, AdditionalFile(root)),
                        unmapped_file(output_xml), JsonFile(unmapped_stops))
           ELSE Written(written_files, output_xml, AdditionalFile(root))
    /\ m_pc' = "done"
    /\ m_exit' = Some(0)
    /\ UNCHANGED <<matchInputs, m_i, root, mapped_count, unmapped_stops>>

\* After the loop, no stop at all: the output file is written, the summary
\* divides by len(stops) and raises ZeroDivisionError.
MatchSummaryRaises ==
    /\ m_pc = "loop" /\ m_i > Len(m_stops)
    /\ Len(m_stops) = 0
    /\ written_files' = Written(written_files, output_xml, AdditionalFile(root))
    /\ m_pc' = "crashed"
    /\ m_exit' = Some(1)
    /\ UNCHANGED <<matchInputs, m_i, root, mapped_count, unmapped_stops>>

MatchNext ==
    \/ MatchMapped
    \/ MatchUnmapped
    \/ MatchWrite
    \/ MatchSummaryRaises

(***************************************************************************)
(* The inputs the matcher is checked on                                    *)
(***************************************************************************)
Cand(lane, dist) == [lane |-> lane, dist |-> dist]

East == Some(<<<<0, 0>>, <<1, 0>>>>)
North == Some(<<<<0, 0>>, <<0, 1>>>>)
West == Some(<<<<0, 0>>, <<-1, 0>>>>)
Degenerate == Some(<<<<0, 0>>, <<0, 0>>>>)

\* A street lane of a connected edge that buses may use.
BusLane(name, shape, dist) ==
    Cand(MLane(Lane(name, 0), MEdge("", name, "normal", TRUE, TRUE), {"bus", "passenger"},
               shape, 5000, 2500), dist)

\* The same on an edge nothing leaves.
DeadEndLane(name, shape, dist) ==
    Cand(MLane(Lane(name, 0), MEdge("", name, "normal", FALSE, TRUE), {"bus"},
               shape, 500, 0), dist)

\* Lanes around a stop: streets in three directions within the first and
\* the second radius, dead ends, a junction-internal lane, a walking area,
\* a footpath, a lane with a degenerate shape, a lane with a one-point shape,
\* and a street beyond every radius.
LaneUniverse ==
    {BusLane("e1", East, 50), BusLane("e2", West, 50), BusLane("e3", North, 50),
     BusLane("e4", East, 300), BusLane("e5", West, 300),
     DeadEndLane("e6", East, 50), DeadEndLane("e7", West, 300),
     Cand(MLane(Lane("j1", 0), MEdge(":", "j1", "internal", TRUE, TRUE), {"bus"},
                East, 500, 0), 50),
     Cand(MLane(Lane("w1", 0), MEdge("", "w1", "walkingarea", TRUE, TRUE), {"bus"},
                East, 500, 0), 50),
     Cand(MLane(Lane("e8", 0), MEdge("", "e8", "normal", TRUE, TRUE), {"pedestrian"},
                East, 5000, 4900), 50),
     BusLane("e9", Degenerate, 50),
     BusLane("e10", None, 300),
     BusLane("e11", East, 5000)}

\* The sequences of distinct elements of a set, up to a length.
DistinctSeqsUpTo(S, n) ==
    {q \in SeqsUpTo(S, n) : \A i \in 1..Len(q), j \in 1..Len(q) : i # j => q[i] # q[j]}

\* One stop with any lanes around it, with and without preferred heading.
InitMatchOne ==
    /\ stop_elems \in {<<StopElement("bus_stop_1", "First St", TRUE, near, FALSE)>> :
                           near \in DistinctSeqsUpTo(LaneUniverse, MaxLanes)}
    /\ preferred_headings \in {<<>>, ("bus_stop_1" :> 0), ("bus_stop_1" :> 180)}
    /\ require_vclasses \in {None, Some(<<"bus">>)}
    /\ max_radius \in {4000, 100}
    /\ max_heading_diff_deg = 90
    /\ output_xml = <<"stops_mapped", ".add.xml">>

\* Stops of a batch: one on a street, one with nothing around, one whose
\* coordinates cannot be converted, one without geoPosition, one facing
\* against the only street.
BatchStopElems ==
    {StopElement("bus_stop_1", "First St", TRUE, <<BusLane("e1", East, 50)>>, FALSE),
     StopElement("bus_stop_2", "Nowhere", TRUE, <<>>, FALSE),
     StopElement("bus_stop_3", "Off the map", TRUE, <<BusLane("e1", East, 50)>>, TRUE),
     StopElement("bus_stop_4", "No position", FALSE, <<BusLane("e1", East, 50)>>, FALSE),
     StopElement("bus_stop_5", "Facing west", TRUE, <<BusLane("e4", East, 300)>>, FALSE)}

InitMatchBatch ==
    /\ stop_elems \in SeqsUpTo(BatchStopElems, MaxMatchStops)
    /\ preferred_headings \in {<<>>, ("bus_stop_5" :> 180)}
    /\ require_vclasses = None
    /\ max_radius = 4000
    /\ max_heading_diff_deg = 90
    /\ output_xml \in {<<"stops_mapped", ".add.xml">>, <<"stops_mapped", ".xml">>}

MatchBegin ==
    /\ m_pc = "loop"
    /\ m_i = 1
    /\ root = <<>>
    /\ mapped_count = 0
    /\ unmapped_stops = <<>>
    /\ written_files = <<>>
    /\ m_exit = None

\* The matcher as constructed and not run.
MatchIdle ==
    /\ stop_elems = <<>> /\ preferred_headings = <<>> /\ require_vclasses = None
    /\ max_radius = 0 /\ max_heading_diff_deg = 0 /\ output_xml = <<>>
    /\ MatchBegin

(***************************************************************************)
(* map_stops_to_network_optimized.py : _build_preferred_headings           *)
(*                                                                         *)
(* Stops lie on a grid and consecutive stops of a pattern differ along one *)
(* axis, so that the unit vector of a pair has whole components.           *)
(***************************************************************************)
\* f"{stop_prefix}{seq[i]}"
Prefixed(prefix, id) == <<prefix, id>>

Sign(v) == IF v > 0 THEN 1 ELSE IF v < 0 THEN -1 ELSE 0

\* (cos(ang), sin(ang)) for ang = atan2(dy, dx), dx = 0 or dy = 0
UnitVector(dx, dy) == <<Sign(dx), Sign(dy)>>

\* accum[a], counts[a] of a defaultdict
AccumOf(acc, a) == IF a \in DOMAIN acc THEN acc[a] ELSE <<0, 0>>
CountOf(cnt, a) == IF a \in DOMAIN cnt THEN cnt[a] ELSE 0

\* "math.hypot(sx, sy) / float(n) < 0.25" for whole sx, sy and n > 0
BelowThreshold(sx, sy, n) == 16 * (sx * sx + sy * sy) < n * n

headingInputs == <<heading_patterns, stop_xy, stop_prefix,
                   valVars, planVars, stitchVars, matchVars, convVars>>

heading_seq == heading_patterns[pat_i]
pair_a == Prefixed(stop_prefix, heading_seq[pair_i + 1])
pair_b == Prefixed(stop_prefix, heading_seq[pair_i + 2])

\* the end of one pass of "for i in range(len(seq) - 1)"
NextPair ==
    IF pair_i + 2 < Len(heading_seq)
    THEN pair_i' = pair_i + 1 /\ pat_i' = pat_i
    ELSE pair_i' = 0 /\ pat_i' = pat_i + 1

\* the pair is passed over: a stop without coordinates, or no distance
PairSkipped ==
    IF pair_a \notin DOMAIN stop_xy \/ pair_b \notin DOMAIN stop_xy THEN TRUE
    ELSE stop_xy[pair_a] = stop_xy[pair_b]

\* A pattern with fewer than two stops.
HeadingPatternSkipped ==
    /\ h_pc = "accumulate" /\ pat_i <= Len(heading_patterns)
    /\ Len(heading_seq) < 2
    /\ pat_i' = pat_i + 1
    /\ UNCHANGED <<headingInputs, h_pc, pair_i, accum, counts, headings>>

HeadingPairSkipped ==
    /\ h_pc = "accumulate" /\ pat_i <= Len(heading_patterns)
    /\ Len(heading_seq) >= 2
    /\ PairSkipped
    /\ NextPair
    /\ UNCHANGED <<headingInputs, h_pc, accum, counts, headings>>

\* The unit vector of the pair is added at its first stop.
HeadingPairAccumulated ==
    /\ h_pc = "accumulate" /\ pat_i <= Len(heading_patterns)
    /\ Len(heading_seq) >= 2
    /\ ~PairSkipped
    /\ LET u == UnitVector(stop_xy[pair_b][1] - stop_xy[pair_a][1],
                           stop_xy[pair_b][2] - stop_xy[pair_a][2])
           s == AccumOf(accum, pair_a)
       IN /\ accum' = [sid \in DOMAIN accum \cup {pair_a} |->
                          IF sid = pair_a THEN <<s[1] + u[1], s[2] + u[2]>> ELSE accum[sid]]
          /\ counts' = [sid \in DOMAIN counts \cup {pair_a} |->
                           IF sid = pair_a THEN CountOf(counts, pair_a) + 1 ELSE counts[sid]]
    /\ NextPair
    /\ UNCHANGED <<headingInputs, h_pc, headings>>

\* "for sid, (sx, sy) in accum.items()": the stops that get a heading
HeadingAssigned(sid) ==
    /\ CountOf(counts, sid) > 0
    /\ ~BelowThreshold(accum[sid][1], accum[sid][2], CountOf(counts, sid))

HeadingsOut ==
    /\ h_pc = "accumulate" /\ pat_i > Len(heading_patterns)
    /\ headings' = [sid \in {s \in DOMAIN accum : HeadingAssigned(s)} |->
                       Atan2Deg(accum[sid][2], accum[sid][1])]
    /\ h_pc' = "done"
    /\ UNCHANGED <<headingInputs, pat_i, pair_i, accum, counts>>

HeadingNext ==
    \/ HeadingPatternSkipped
    \/ HeadingPairSkipped
    \/ HeadingPairAccumulated
    \/ HeadingsOut

(***************************************************************************)
(* The inputs the heading estimator is checked on                          *)
(***************************************************************************)
\* A line that runs n times from stop "a" to stop x and n - 1 times back.
Shuttle(x, n) == [k \in 1..(2 * n) |-> IF k % 2 = 1 THEN "a" ELSE x]

\* "b" east and "c" west of "a", "e" at the place of "a", "q" north of "p",
\* "u" without coordinates
HeadingStops ==
    (Prefixed("bus_stop_", "a") :> <<0, 0>>) @@ (Prefixed("bus_stop_", "b") :> <<1, 0>>) @@
    (Prefixed("bus_stop_", "c") :> <<-1, 0>>) @@ (Prefixed("bus_stop_", "e") :> <<0, 0>>) @@
    (Prefixed("bus_stop_", "p") :> <<5, 5>>) @@ (Prefixed("bus_stop_", "q") :> <<5, 6>>)

HeadingPatterns ==
    {Shuttle(x, n) : x \in {"b", "c"}, n \in 1..MaxRuns}
        \cup {<<>>, <<"a">>, <<"a", "e">>, <<"a", "u", "b">>, <<"p", "q">>}

InitHeadings ==
    /\ heading_patterns \in SeqsUpTo(HeadingPatterns, MaxHeadingPatterns)
    /\ stop_xy = HeadingStops
    /\ stop_prefix = "bus_stop_"

HeadingBegin ==
    /\ h_pc = "accumulate"
    /\ pat_i = 1
    /\ pair_i = 0
    /\ accum = <<>>
    /\ counts = <<>>
    /\ headings = <<>>

\* The heading estimator as constructed and not run.
HeadingIdle ==
    /\ heading_patterns = <<>> /\ stop_xy = <<>> /\ stop_prefix = ""
    /\ HeadingBegin

(***************************************************************************)
(* convert_timetable_to_sumo.py                                            *)
(*                                                                         *)
(* A service key "d1|d2|..." is the sequence of its pieces; a piece and a  *)
(* --service-date are date strings: empty, blank, or a date written with   *)
(* "/" or with "-", with or without blanks around it.                      *)
(***************************************************************************)
DateStr(sep, day, padded) == [kind |-> "date", sep |-> sep, day |-> day, padded |-> padded]
EmptyStr == [kind |-> "empty", sep |-> "", day |-> 0, padded |-> FALSE]
BlankStr == [kind |-> "blank", sep |-> "", day |-> 0, padded |-> TRUE]

\* time_to_seconds: an "HH:MM:SS" string is the number of seconds it
\* stands for, a string that does not parse is None and gives 0
time_to_seconds(time_str) == IF time_str = None THEN 0 ELSE Val(time_str)

\* (s or "").strip().replace("-", "/")
normalize_service_date(s) ==
    IF s.kind = "date" THEN DateStr("/", s.day, FALSE) ELSE EmptyStr

\* "normalized in str(k)": the date is a substring of the key
KeyContains(k, normalized) ==
    \E i \in 1..Len(k) :
        k[i].kind = "date" /\ k[i].sep = normalized.sep /\ k[i].day = normalized.day

\* len([x for x in str(service_key).split("|") if x.strip()])
count_service_dates(k) ==
    Cardinality({i \in 1..Len(k) : k[i].kind = "date"})

ServiceGroup(key, trips) == [key |-> key, trips |-> trips]
Trip(trip_id, stops_times) == [trip_id |-> trip_id, stops_times |-> stops_times]

\* What _select_single_service_group returns or raises.
Selected(key, groups) == [raises |-> FALSE, key |-> key, groups |-> groups]
SelectRaises == [raises |-> TRUE, key |-> None, groups |-> <<>>]

\* "if service_key": neither None nor the empty string
KeyGiven(service_key_opt) == service_key_opt # None /\ Val(service_key_opt) # <<>>
\* "if service_date"
DateGiven(service_date_opt) == service_date_opt # None /\ Val(service_date_opt).kind # "empty"

\* the first index of the dict whose key passes
FirstIndex(services_info, ks) == CHOOSE i \in ks : \A j \in ks : i <= j

\* max(keys, key=...): the first key with the largest measure
MaxIndexBy(services_info, measure) ==
    CHOOSE i \in 1..Len(services_info) :
        /\ \A j \in 1..Len(services_info) : measure[j] <= measure[i]
        /\ \A j \in 1..(i - 1) : measure[j] < measure[i]

DateMatches(services_info, service_date_opt) ==
    IF DateGiven(service_date_opt) /\ normalize_service_date(Val(service_date_opt)).kind = "date"
    THEN {i \in 1..Len(services_info) :
              KeyContains(services_info[i].key, normalize_service_date(Val(service_date_opt)))}
    ELSE {}

SelectByPolicy(services_info, policy) ==
    IF policy = "all" THEN Selected(None, services_info)
    ELSE IF policy = "first"
    THEN Selected(Some(services_info[1].key), <<services_info[1]>>)
    ELSE IF policy = "largest"
    THEN LET best == MaxIndexBy(services_info,
                         [j \in 1..Len(services_info) |-> count_service_dates(services_info[j].key)])
         IN Selected(Some(services_info[best].key), <<services_info[best]>>)
    ELSE IF policy = "most_trips"
    THEN LET best == MaxIndexBy(services_info,
                         [j \in 1..Len(services_info) |-> Len(services_info[j].trips)])
         IN Selected(Some(services_info[best].key), <<services_info[best]>>)
    ELSE SelectRaises

select_single_service_group(services_info, service_key_opt, service_date_opt, policy) ==
    IF services_info = <<>> THEN Selected(None, <<>>)
    ELSE IF KeyGiven(service_key_opt)
    THEN LET ks == {i \in 1..Len(services_info) : services_info[i].key = Val(service_key_opt)}
         IN IF ks = {} THEN SelectRaises
            ELSE Selected(service_key_opt, <<services_info[FirstIndex(services_info, ks)]>>)
    ELSE IF DateMatches(services_info, service_date_opt) # {}
    THEN LET i == FirstIndex(services_info, DateMatches(services_info, service_date_opt))
         IN Selected(Some(services_info[i].key), <<services_info[i]>>)
    ELSE SelectByPolicy(services_info, policy)

TimetableLine(route_id, patterns, services) ==
    [route_id |-> route_id, routes |-> patterns, services |-> services]
Pattern(route_pattern, trip_ids) == [route_pattern |-> route_pattern, trip_ids |-> trip_ids]

\* The inputs of the run and the other tools.
convInputs == <<timetable, max_vehicles, max_vehicles_per_line, depart_begin, depart_end,
                service_policy, service_date, service_key,
                valVars, planVars, stitchVars, matchVars, headingVars>>

conv_line == timetable[line_i]
conv_pattern == conv_line.routes[pattern_i]

\* route_pattern.replace('->', '_'), a pattern name being a sequence of pieces
sumo_route_id(route_id, route_pattern) ==
    <<route_id, [k \in 1..Len(route_pattern) |->
                    IF route_pattern[k] = "->" THEN "_" ELSE route_pattern[k]]>>

RouteElement(id) == [tag |-> "route", id |-> id, route |-> id, depart |-> None]
VehicleElement(route_id, route, trip) ==
    [tag |-> "vehicle", id |-> <<route_id, trip.trip_id>>, route |-> route,
     depart |-> IF trip.stops_times = <<>> THEN None
                ELSE Some(time_to_seconds(trip.stops_times[1]))]

\* "max_vehicles and total_vehicles >= max_vehicles"
Capped(cap, n) == cap # None /\ Val(cap) # 0 /\ n >= Val(cap)

\* the departure-window filter
OutsideWindow(depart_seconds) ==
    \/ depart_begin # None /\ depart_seconds < Val(depart_begin)
    \/ depart_end # None /\ depart_seconds > Val(depart_end)

\* "for trip_id_str, stops_times in trips.items()" from the k-th trip on
RECURSIVE TripsLoop(_, _, _, _, _)
TripsLoop(trips, k, route_id, route, st) ==
    IF k > Len(trips) THEN st
    ELSE IF trips[k].trip_id \notin conv_pattern.trip_ids
    THEN TripsLoop(trips, k + 1, route_id, route, st)
    ELSE IF Capped(max_vehicles, st.total_vehicles) THEN st
    ELSE IF Capped(max_vehicles_per_line, st.line_vehicles)
    THEN [st EXCEPT !.reached_line_cap = TRUE]
    ELSE IF /\ trips[k].stops_times # <<>>
            /\ OutsideWindow(time_to_seconds(trips[k].stops_times[1]))
    THEN TripsLoop(trips, k + 1, route_id, route, st)
    ELSE TripsLoop(trips, k + 1, route_id, route,
                   [st EXCEPT !.elems = Append(@, VehicleElement(route_id, route, trips[k])),
                              !.total_vehicles = @ + 1,
                              !.line_vehicles = @ + 1,
                              !.created_any_vehicle_for_route = TRUE])

\* "for service_dates, service_data in selected_services_info.items()"
RECURSIVE ServicesLoop(_, _, _, _, _)
ServicesLoop(groups, g, route_id, route, st) ==
    IF g > Len(groups) THEN st
    ELSE IF Capped(max_vehicles_per_line, st.line_vehicles)
    THEN [st EXCEPT !.reached_line_cap = TRUE]
    ELSE LET after == TripsLoop(groups[g].trips, 1, route_id, route, st)
         IN IF Capped(max_vehicles, after.total_vehicles) \/ after.reached_line_cap
            THEN after
            ELSE ServicesLoop(groups, g + 1, route_id, route, after)

\* One pattern of the line: its route element and its vehicles.
PatternRun ==
    LET route == sumo_route_id(conv_line.route_id, conv_pattern.route_pattern)
    IN ServicesLoop(selection.groups, 1, conv_line.route_id, route,
                    [elems |-> Append(rou_root, RouteElement(route)),
                     total_vehicles |-> total_vehicles,
                     line_vehicles |-> vehicles_per_line[conv_line.route_id],
                     created_any_vehicle_for_route |-> FALSE,
                     reached_line_cap |-> FALSE])

\* root.remove(route): the element appended at this position
RemoveAt(elems, p) == [k \in 1..(Len(elems) - 1) |-> IF k < p THEN elems[k] ELSE elems[k + 1]]

\* Top of "for route_id, route_data in timetable_data.items()".
ConvertSelect ==
    /\ c_pc = "line" /\ line_i <= Len(timetable)
    /\ LET sel == select_single_service_group(conv_line.services, service_key,
                                              service_date, service_policy)
       IN /\ ~sel.raises
          /\ selection' = sel
    /\ pattern_i' = 1
    /\ c_pc' = "pattern"
    /\ UNCHANGED <<convInputs, line_i, rou_root, total_routes, total_vehicles,
                   vehicles_per_line, rou_output, c_exit>>

\* The selection raises ValueError: the run ends, nothing is written.
ConvertSelectRaises ==
    /\ c_pc = "line" /\ line_i <= Len(timetable)
    /\ select_single_service_group(conv_line.services, service_key,
                                   service_date, service_policy).raises
    /\ c_pc' = "raised"
    /\ c_exit' = Some(1)
    /\ UNCHANGED <<convInputs, line_i, pattern_i, selection, rou_root, total_routes,
                   total_vehicles, vehicles_per_line, rou_output>>

PatternCounted ==
    /\ rou_root' = PatternRun.elems
    /\ total_vehicles' = PatternRun.total_vehicles
    /\ vehicles_per_line' =
           [vehicles_per_line EXCEPT ![conv_line.route_id] = PatternRun.line_vehicles]

\* One pattern, the vehicle limit is reached: "break" before the route is looked at.
ConvertPatternLimit ==
    /\ c_pc = "pattern" /\ pattern_i <= Len(conv_line.routes)
    /\ Capped(max_vehicles, PatternRun.total_vehicles)
    /\ PatternCounted
    /\ c_pc' = "write"
    /\ UNCHANGED <<convInputs, line_i, pattern_i, selection, total_routes, rou_output, c_exit>>

\* One pattern, no vehicle of it survived: the route is removed.
ConvertPatternRemoved ==
    /\ c_pc = "pattern" /\ pattern_i <= Len(conv_line.routes)
    /\ ~Capped(max_vehicles, PatternRun.total_vehicles)
    /\ ~PatternRun.created_any_vehicle_for_route
    /\ rou_root' = RemoveAt(PatternRun.elems, Len(rou_root) + 1)
    /\ pattern_i' = pattern_i + 1
    /\ UNCHANGED <<convInputs, c_pc, line_i, selection, total_routes, total_vehicles,
                   vehicles_per_line, rou_output, c_exit>>

\* One pattern with vehicles: the route stays and is counted.
ConvertPatternKept ==
    /\ c_pc = "pattern" /\ pattern_i <= Len(conv_line.routes)
    /\ ~Capped(max_vehicles, PatternRun.total_vehicles)
    /\ PatternRun.created_any_vehicle_for_route
    /\ PatternCounted
    /\ total_routes' = total_routes + 1
    /\ pattern_i' = pattern_i + 1
    /\ UNCHANGED <<convInputs, c_pc, line_i, selection, rou_output, c_exit>>

\* The patterns of the line are done: the next line, unless the limit is reached.
ConvertLineDone ==
    /\ c_pc = "pattern" /\ pattern_i > Len(conv_line.routes)
    /\ IF Capped(max_vehicles, total_vehicles)
       THEN c_pc' = "write" /\ line_i' = line_i
       ELSE c_pc' = "line" /\ line_i' = line_i + 1
    /\ UNCHANGED <<convInputs, pattern_i, selection, rou_root, total_routes,
                   total_vehicles, vehicles_per_line, rou_output, c_exit>>

\* tree.write(...)
ConvertWrite ==
    /\ \/ c_pc = "write"
       \/ c_pc = "line" /\ line_i > Len(timetable)
    /\ rou_output' = Some(rou_root)
    /\ c_pc' = "done"
    /\ c_exit' = Some(0)
    /\ UNCHANGED <<convInputs, line_i, pattern_i, selection, rou_root, total_routes,
                   total_vehicles, vehicles_per_line>>

ConvertNext ==
    \/ ConvertSelect
    \/ ConvertSelectRaises
    \/ ConvertPatternLimit
    \/ ConvertPatternRemoved
    \/ ConvertPatternKept
    \/ ConvertLineDone
    \/ ConvertWrite

(***************************************************************************)
(* The inputs the converter is checked on                                  *)
(***************************************************************************)
RouteIdsOfLines == {"M1", "M2", "M3", "M4"}

KeyMon == <<DateStr("/", 1, FALSE)>>
KeyMonTue == <<DateStr("/", 1, FALSE), DateStr("/", 2, TRUE)>>
KeyTueBlank == <<DateStr("/", 2, FALSE), BlankStr>>
KeyDashed == <<DateStr("-", 3, FALSE)>>
ServiceKeys == {KeyMon, KeyMonTue, KeyTueBlank, KeyDashed}

TripEarly == Trip("t1", <<Some(1), Some(2)>>)
TripLate == Trip("t2", <<Some(3)>>)
TripNoTimes == Trip("t3", <<>>)
TripBadTime == Trip("t4", <<None>>)

DistinctKeys(groups) ==
    \A i \in 1..Len(groups), j \in 1..Len(groups) : i # j => groups[i].key # groups[j].key

\* One line; any service groups, key, date and policy.
InitConvertSelect ==
    /\ \E groups \in SeqsUpTo({ServiceGroup(k, trips) :
                                  k \in ServiceKeys,
                                  trips \in {<<>>, <<TripEarly>>, <<TripEarly, TripLate>>}},
                              MaxGroups) :
           /\ DistinctKeys(groups)
           /\ timetable = <<TimetableLine("M1", <<Pattern(<<"A", "->", "B">>, {"t1", "t2"})>>,
                                          groups)>>
    /\ service_key \in {None, Some(<<>>), Some(KeyMon), Some(KeyDashed)}
    /\ service_date \in {None, Some(EmptyStr), Some(BlankStr), Some(DateStr("-", 2, TRUE)),
                         Some(DateStr("/", 3, FALSE)), Some(DateStr("/", 1, FALSE))}
    /\ service_policy \in {"all", "first", "largest", "most_trips", "busiest"}
    /\ max_vehicles = None /\ max_vehicles_per_line = None
    /\ depart_begin = None /\ depart_end = None

ConvLines ==
    {TimetableLine("M1", <<Pattern(<<"A", "->", "B">>, {"t1", "t2"}),
                           Pattern(<<"A", "_", "B">>, {"t3"})>>,
                   <<ServiceGroup(KeyMonTue, <<TripEarly, TripLate>>),
                     ServiceGroup(KeyMon, <<TripNoTimes>>)>>),
     TimetableLine("M2", <<Pattern(<<"C", "->", "D">>, {"t1", "t4"})>>,
                   <<ServiceGroup(KeyMon, <<TripBadTime, TripEarly>>)>>),
     TimetableLine("M3", <<Pattern(<<"A", "->", "B">>, {"t1"})>>, <<>>),
     TimetableLine("M4", <<>>, <<ServiceGroup(KeyMon, <<TripEarly>>)>>)}

\* Several lines under the vehicle limits and the departure window.
InitConvertLimits ==
    /\ timetable \in {q \in SeqsUpTo(ConvLines, MaxConvLines) :
                          \A i \in 1..Len(q), j \in 1..Len(q) :
                              i # j => q[i].route_id # q[j].route_id}
    /\ max_vehicles \in {None} \cup {Some(n) : n \in -1..MaxVehicleLimit}
    /\ max_vehicles_per_line \in {None, Some(1)}
    /\ \E window \in {<<None, None>>, <<Some(2), None>>, <<None, Some(1)>>,
                      <<Some(1), Some(1)>>} :
           depart_begin = window[1] /\ depart_end = window[2]
    /\ service_policy \in {"all", "largest"}
    /\ service_date = None /\ service_key = None

ConvertBegin ==
    /\ c_pc = "line"
    /\ line_i = 1
    /\ pattern_i = 1
    /\ selection = Selected(None, <<>>)
    /\ rou_root = <<>>
    /\ total_routes = 0
    /\ total_vehicles = 0
    /\ vehicles_per_line = [id \in RouteIdsOfLines |-> 0]
    /\ rou_output = None
    /\ c_exit = None

\* The converter as constructed and not run.
ConvertIdle ==
    /\ timetable = <<>> /\ max_vehicles = None /\ max_vehicles_per_line = None
    /\ depart_begin = None /\ depart_end = None /\ service_policy = "largest"
    /\ service_date = None /\ service_key = None
    /\ ConvertBegin

(***************************************************************************)
(* Specifications: one run of each tool.                                   *)
(***************************************************************************)
Init ==
    /\ InitSearch \/ InitStructure \/ InitBatch \/ InitClock
    /\ ValStart /\ PlanIdle /\ StitchIdle /\ MatchIdle /\ ConvertIdle /\ HeadingIdle
Next == ValNext
Spec == Init /\ [][Next]_vars

PlannerInit ==
    /\ InitOneOD \/ InitODBatch
    /\ PlanStart /\ ValIdle /\ StitchIdle /\ MatchIdle /\ ConvertIdle /\ HeadingIdle
PlannerNext == PlanNext
SpecPlanner == PlannerInit /\ [][PlannerNext]_vars

StitcherInit ==
    /\ InitStitchPositions \/ InitStitchEdges \/ InitStitchBatch
    /\ StitchBegin /\ ValIdle /\ PlanIdle /\ MatchIdle /\ ConvertIdle /\ HeadingIdle
StitcherNext == StitchNext
SpecStitcher == StitcherInit /\ [][StitcherNext]_vars

MatcherInit ==
    /\ InitMatchOne \/ InitMatchBatch
    /\ MatchBegin /\ ValIdle /\ PlanIdle /\ StitchIdle /\ ConvertIdle /\ HeadingIdle
MatcherNext == MatchNext
SpecMatcher == MatcherInit /\ [][MatcherNext]_vars

HeadingInit ==
    /\ InitHeadings
    /\ HeadingBegin /\ ValIdle /\ PlanIdle /\ StitchIdle /\ MatchIdle /\ ConvertIdle
SpecHeadings == HeadingInit /\ [][HeadingNext]_vars

ConverterInit ==
    /\ InitConvertSelect \/ InitConvertLimits
    /\ ConvertBegin /\ ValIdle /\ PlanIdle /\ StitchIdle /\ MatchIdle /\ HeadingIdle
ConverterNext == ConvertNext
SpecConverter == ConverterInit /\ [][ConverterNext]_vars

(***************************************************************************)
(* Properties of the Chain Validator                                       *)
(***************************************************************************)
\* The arrival times a rider can reach to_stop at with one vehicle: a visit
\* of to_stop at a later list position than some visit of from_stop whose
\* time is at or after the cursor.
Arrivals(v, from_stop, to_stop, cursor) ==
    {Val(v.stops[j].until) :
        j \in {j \in 1..Len(v.stops) :
                 /\ v.stops[j].busStop = to_stop /\ v.stops[j].until # None
                 /\ \E i \in 1..(j - 1) :
                        /\ v.stops[i].busStop = from_stop /\ v.stops[i].until # None
                        /\ Val(v.stops[i].until) >= cursor}}
Feasible(v, from_stop, to_stop, cursor) == Arrivals(v, from_stop, to_stop, cursor) # {}
MinOf(S) == CHOOSE x \in S : \A y \in S : x <= y

AllVehicles == Flatten(routes_files, 1)
LineSet(l) == {map_lines(l.lines)[k] : k \in 1..Len(map_lines(l.lines))}
PositionOf(id) == CHOOSE k \in 1..Len(AllVehicles) : AllVehicles[k].id = id
InValidation == pc \in {"structural", "feasibility"}

\* C1: for every ride the validator has recorded, no vehicle of an acceptable
\* line that can be boarded at the "from" stop at or after the cursor (at any
\* of its visits) and reaches the "to" stop later in its list arrives
\* earlier than the selected vehicle, and none that arrives at the same time
\* comes earlier in input order.
C1_SelectedIsEarliestArrival ==
    InValidation =>
        \A n \in 1..Len(ride_reports) :
            LET r == ride_reports[n]
                l == legs[r.legIndex + 1]
            IN \A k \in 1..Len(AllVehicles) :
                   LET v == AllVehicles[k]
                       arr == Arrivals(v, r.fromStop, r.toStop, r.earliestTimeAtFrom)
                   IN (v.line \in LineSet(l) /\ arr # {}) =>
                          \/ r.arrivalTime < MinOf(arr)
                          \/ r.arrivalTime = MinOf(arr) /\ PositionOf(r.vehicleId) <= k

\* C2: a "no feasible vehicle" error is recorded for a ride leg exactly when
\* no vehicle of an acceptable line visits the "from" stop at or after the
\* cursor and the "to" stop at a later list position.
C2_ErrorIffNoFeasibleVehicle ==
    InValidation =>
        /\ \A n \in 1..Len(ride_errors) :
               LET e == ride_errors[n]
               IN e.kind = "no_vehicle" =>
                      ~\E k \in 1..Len(AllVehicles) :
                           /\ AllVehicles[k].line \in LineSet(legs[e.leg + 1])
                           /\ Feasible(AllVehicles[k], e.from, e.to, e.t)
        /\ \A n \in 1..Len(ride_reports) :
               LET r == ride_reports[n]
               IN \E k \in 1..Len(AllVehicles) :
                      /\ AllVehicles[k].line \in LineSet(legs[r.legIndex + 1])
                      /\ Feasible(AllVehicles[k], r.fromStop, r.toStop, r.earliestTimeAtFrom)

HasKey(r, k) == k \in DOMAIN r
IsFull(r) == HasKey(r, "endTimeEstimate")
Range(q) == {q[k] : k \in 1..Len(q)}

\* The errors a report lists, of every kind.
ListedErrors(r) ==
    Len(r.errors) + (IF HasKey(r, "stopErrors") THEN Len(r.stopErrors) ELSE 0)
                  + (IF HasKey(r, "rideErrors") THEN Len(r.rideErrors) ELSE 0)

\* A leg list without anything to report: known types, chained, known stops,
\* rides from stop to stop with a line.
Clean(ls) ==
    \A i \in 1..Len(ls) :
        /\ ls[i].type \in {"walk", "ride"}
        /\ i > 1 => ls[i].from = ls[i - 1].to
        /\ known_stops # None => StopsOf(ls[i].from, ls[i].to) \subseteq Val(known_stops)
        /\ ls[i].type = "ride" =>
               ls[i].from.kind = "busStop" /\ ls[i].to.kind = "busStop" /\ ls[i].lines # <<>>

\* C3: a report says ok exactly when it lists no error of any kind, and a
\* plan reported ok has only known leg types, is chained, references only
\* known stops and has only stop-to-stop rides with a line.
C3_OkIffNoErrors ==
    \A n \in 1..Len(per_person) :
        /\ per_person[n].ok <=> ListedErrors(per_person[n]) = 0
        /\ per_person[n].ok => Clean(plans[n].legs)

\* One run has reported a plan ok and a validated plan with an error not ok.
C3_Witness ==
    \E n, m \in 1..Len(per_person) :
        /\ per_person[n].ok
        /\ IsFull(per_person[m]) /\ ~per_person[m].ok /\ ListedErrors(per_person[m]) = 1

\* C4: every report of the run carries the end-time estimate.
C4_EveryReportHasEndTime ==
    \A n \in 1..Len(per_person) : HasKey(per_person[n], "endTimeEstimate")

\* A ride leg the validator finds no vehicle for, or does not search for.
InfeasibleRide(l, cursor) ==
    \/ l.from.kind # "busStop" \/ l.to.kind # "busStop"
    \/ map_lines(l.lines) = <<>>
    \/ routes_files = <<>>
    \/ best_vehicle_arrival(routes_files, map_lines(l.lines), l.from.value, l.to.value,
                            cursor) = None

AtRideLeg == pc = "feasibility" /\ ~FeasDone /\ leg.type = "ride"

RideLegs_(ls) == {i \in 0..(Len(ls) - 1) : ls[i + 1].type = "ride"}

\* C5, the step: an infeasible ride leg records one ride error, leaves the
\* cursor and the rides as they are, and the pass goes on with the next leg.
C5_Step ==
    (AtRideLeg /\ InfeasibleRide(leg, time_cursor)) =>
        /\ time_cursor' = time_cursor
        /\ Len(ride_errors') = Len(ride_errors) + 1
        /\ ride_reports' = ride_reports
        /\ idx' = idx + 1 /\ pc' = "feasibility"

\* C5, the report: a report with a ride error is not ok, every ride leg of
\* the plan is either in its rides or in its ride errors, and a ride that
\* follows a "no vehicle" error started from the cursor of that error.
C5_Report ==
    \A n \in 1..Len(per_person) :
        LET r == per_person[n] IN
        IsFull(r) =>
            /\ r.rideErrors # <<>> => ~r.ok
            /\ {x.legIndex : x \in Range(r.rides)} \cup {e.leg : e \in Range(r.rideErrors)}
                   = RideLegs_(plans[n].legs)
            /\ Len(r.rides) + Len(r.rideErrors) = Cardinality(RideLegs_(plans[n].legs))
            /\ \A x \in Range(r.rides), e \in Range(r.rideErrors) :
                   (e.kind = "no_vehicle" /\ x.legIndex = e.leg + 1) =>
                       x.earliestTimeAtFrom = e.t

\* C5: a failed ride leg leaves the cursor unchanged, fails the plan and
\* does not stop the pass: later legs are evaluated from the same cursor.
C5_InfeasibleRideKeepsCursor == []C5_Report /\ [][C5_Step]_vars

\* A feasible ride has been recorded after an infeasible one of the same plan.
C5_Witness ==
    /\ pc = "feasibility"
    /\ \E e \in Range(ride_errors), x \in Range(ride_reports) : x.legIndex > e.leg

DurationOrZero(l) == IF l.duration_s = None THEN 0 ELSE Val(l.duration_s)
ClampedDuration(l) == IF DurationOrZero(l) < 0 THEN 0 ELSE DurationOrZero(l)

\* The cursor after the legs 1..k of a plan, given the rides of its report:
\* a walk adds its duration (clamped at 0 or not), a ride that is in the
\* rides sets the arrival time.
RECURSIVE CursorAt(_, _, _, _, _)
CursorAt(ls, depart, rides, k, clamp) ==
    IF k = 0 THEN depart
    ELSE LET before == CursorAt(ls, depart, rides, k - 1, clamp)
             l == ls[k]
         IN IF l.type = "walk"
            THEN before + (IF clamp THEN ClampedDuration(l) ELSE DurationOrZero(l))
            ELSE IF \E x \in Range(rides) : x.legIndex = k - 1
            THEN (CHOOSE x \in Range(rides) : x.legIndex = k - 1).arrivalTime
            ELSE before

RidesRecorded(r, ls, depart, clamp) ==
    \A x \in Range(r.rides) :
        /\ x.earliestTimeAtFrom = CursorAt(ls, depart, r.rides, x.legIndex, clamp)
        /\ {"legIndex", "vehicleId", "line", "boardLatest", "arrivalTime"} \subseteq DOMAIN x
        /\ \E v \in Range(AllVehicles) :
               /\ v.id = x.vehicleId /\ v.line = x.line
               /\ \E i, j \in 1..Len(v.stops) :
                      /\ i < j
                      /\ v.stops[i] = StopEntry(ls[x.legIndex + 1].from.value, Some(x.boardLatest))
                      /\ v.stops[j] = StopEntry(ls[x.legIndex + 1].to.value, Some(x.arrivalTime))

\* C6 as stated: the cursor starts at the departure time, a walk adds its
\* duration (0 when absent), a successful ride sets the arrival time, and the
\* end-time estimate is the cursor after the last leg.
C6_CursorRule_AsStated ==
    \A n \in 1..Len(per_person) :
        LET r == per_person[n]
            ls == plans[n].legs
        IN IsFull(r) =>
               /\ r.endTimeEstimate = CursorAt(ls, r.depart, r.rides, Len(ls), FALSE)
               /\ RidesRecorded(r, ls, r.depart, FALSE)

\* C6 amended: as stated, but a walk adds max(0, duration).
C6_CursorRule ==
    \A n \in 1..Len(per_person) :
        LET r == per_person[n]
            ls == plans[n].legs
        IN IsFull(r) =>
               /\ r.endTimeEstimate = CursorAt(ls, r.depart, r.rides, Len(ls), TRUE)
               /\ RidesRecorded(r, ls, r.depart, TRUE)

\* Scenario B: access walk, one ride boarded at 1 and arriving at 2, egress
\* walk of 1 s: ok, end-time estimate 2 + 1.
C6_Witness ==
    \E n \in 1..Len(per_person) :
        /\ plans[n] = ScenarioB
        /\ per_person[n].ok
        /\ Len(per_person[n].rides) = 1
        /\ per_person[n].rides[1].boardLatest = 1
        /\ per_person[n].rides[1].arrivalTime = 2
        /\ per_person[n].endTimeEstimate = 3

\* The stop ids the anchors of a leg list name.
ReferencedStops(ls) ==
    UNION {{a.value : a \in {x \in {ls[i].from, ls[i].to} : x.kind = "busStop"}} : i \in 1..Len(ls)}

\* C7: the report of a validated plan lists one chaining error for every
\* index i > 0 whose "from" differs from the "to" of leg i-1 and for no other
\* index, and one stop error for every referenced stop that is not in the
\* known-stop set (none without such a set).
C7_StructuralErrorsCollected ==
    \A n \in 1..Len(per_person) :
        LET r == per_person[n]
            ls == plans[n].legs
            chain == SelectSeq(r.errors, LAMBDA e : e.kind = "chain")
        IN IsFull(r) =>
               /\ {e.leg : e \in Range(chain)}
                      = {i \in 1..(Len(ls) - 1) : ls[i + 1].from # ls[i].to}
               /\ Len(chain) = Cardinality({e.leg : e \in Range(chain)})
               /\ {e.stop : e \in Range(r.stopErrors)}
                      = IF known_stops = None THEN {}
                        ELSE ReferencedStops(ls) \ Val(known_stops)
               /\ Len(r.stopErrors) = Cardinality({e.stop : e \in Range(r.stopErrors)})

\* C8 (validator): when the run has ended, every plan of the input has one
\* report, in input order.
C8_OneReportPerPlan ==
    pc \in {"done", "crashed"} =>
        /\ Len(per_person) = Len(plans)
        /\ \A n \in 1..Len(per_person) :
               HasKey(per_person[n], "personId") =>
                   per_person[n].personId \in {None, Some(plans[n].personId)}

\* The stop times a vehicle carries (the <stop> children with a number in
\* "until") do not decrease along its stop list.
StopTimesForward(v) ==
    \A i \in 1..Len(v.stops), j \in 1..Len(v.stops) :
        (i < j /\ v.stops[i].until # None /\ v.stops[j].until # None)
            => Val(v.stops[i].until) <= Val(v.stops[j].until)
TimetableForward == \A v \in Range(AllVehicles) : StopTimesForward(v)

RideForward(x) == x.earliestTimeAtFrom <= x.boardLatest /\ x.boardLatest <= x.arrivalTime

C30_Report ==
    /\ pc = "feasibility" =>
           /\ time_cursor >= plan.depart
           /\ \A x \in Range(ride_reports) : RideForward(x)
    /\ \A n \in 1..Len(per_person) :
           IsFull(per_person[n]) =>
               /\ per_person[n].endTimeEstimate >= plans[n].depart
               /\ \A x \in Range(per_person[n].rides) : RideForward(x)

C30_Step ==
    (pc = "feasibility" /\ pc' = "feasibility") =>
        /\ time_cursor' >= time_cursor
        /\ ride_reports' # ride_reports =>
               /\ ride_reports'[Len(ride_reports')].earliestTimeAtFrom = time_cursor
               /\ ride_reports'[Len(ride_reports')].boardLatest >= time_cursor
               /\ time_cursor' = ride_reports'[Len(ride_reports')].arrivalTime

\* C30: with stop times that do not decrease along any vehicle's stop list,
\* the time cursor never decreases from leg to leg, every recorded ride is
\* boarded at or after the cursor of its leg and arrives at or after it is
\* boarded, and the end-time estimate is at least the plan's departure time.
C30_TimeNeverRunsBackward ==
    /\ [](TimetableForward => C30_Report)
    /\ [][TimetableForward => C30_Step]_vars

\* A reported plan whose walk of negative duration added nothing and whose
\* ride was boarded after the cursor, under a forward timetable.
C30_Witness ==
    /\ TimetableForward
    /\ \E n \in 1..Len(per_person) :
           /\ IsFull(per_person[n])
           /\ plans[n].legs[1].type = "walk" /\ plans[n].legs[1].duration_s = Some(-1)
           /\ Len(per_person[n].rides) = 1
           /\ per_person[n].rides[1].earliestTimeAtFrom = plans[n].depart
           /\ per_person[n].rides[1].boardLatest > plans[n].depart
           /\ per_person[n].endTimeEstimate > plans[n].depart

(***************************************************************************)
(* Properties of the Intermodal Planner                                    *)
(***************************************************************************)
\* C9: the planner exits with status 0 only if every request is "ok".
C9_SuccessOnlyIfAllOk ==
    planner_exit = Some(0) => \A n \in 1..Len(results) : results[n].status = "ok"

\* The bounds of a grid entry <<walk, transfers>> hold for the statistics.
WithinBounds(stats, entry) ==
    /\ entry[2] >= stats.transferCount
    /\ stats.accessWalkLength # None => entry[1] >= Val(stats.accessWalkLength)
    /\ stats.egressWalkLength # None => entry[1] >= Val(stats.egressWalkLength)

\* The grid in priority order: every walk limit under the first transfer
\* bound, then under the second, ...
GridEntry(k) ==
    <<walk_limit[((k - 1) % Len(walk_limit)) + 1], max_transfers[((k - 1) \div Len(walk_limit)) + 1]>>
GridSize == Len(walk_limit) * Len(max_transfers)

\* C10: a request is accepted under the first grid entry, in priority
\* order, whose bounds hold for its statistics, and reported as having no
\* solution exactly when no entry's bounds hold.
C10_FirstSatisfiedEntry ==
    \A n \in 1..Len(results) :
        LET it == results[n] IN
        /\ it.status = "ok" =>
               \E k \in 1..GridSize :
                   /\ GridEntry(k) = <<it.acceptedWalkLimit, it.acceptedMaxTransfers>>
                   /\ WithinBounds(it.stats, GridEntry(k))
                   /\ \A j \in 1..(k - 1) : ~WithinBounds(it.stats, GridEntry(j))
        /\ it.status = "no_solution_under_constraints" =>
               \A k \in 1..GridSize : ~WithinBounds(it.stats, GridEntry(k))
        /\ (it.status = "error" /\ it.error # "oracle") =>
               \E k \in 1..GridSize :
                   WithinBounds(plan_stats_from_stages(oracle[n].stages), GridEntry(k))

\* A request accepted under an entry that is neither the first of the grid
\* nor the only one its statistics satisfy.
C10_Witness ==
    \E n \in 1..Len(results) :
        /\ results[n].status = "ok"
        /\ ~WithinBounds(results[n].stats, GridEntry(1))
        /\ Cardinality({k \in 1..GridSize : WithinBounds(results[n].stats, GridEntry(k))}) > 1

\* The positions of the requests reported "ok", in order: the n-th chain
\* written is the chain of the n-th of them.
OkPositions == SelectSeq([n \in 1..Len(results) |-> n], LAMBDA n : results[n].status = "ok")

\* Every chain written belongs to a request reported "ok", in order.
ChainsAreTheOkRequests ==
    /\ Len(chains) = Len(OkPositions)
    /\ \A j \in 1..Len(chains) : chains[j].personId = ods[OkPositions[j]].person_id

\* The number of ride stages, less one, floor 0.
TransfersOf(stages) ==
    LET rides == {k \in 1..Len(stages) : is_ride(stages[k])}
    IN IF rides = {} THEN 0 ELSE Cardinality(rides) - 1

\* No entry of the grid holds for the statistics of request n.
NoEntryHolds(n) ==
    /\ ~oracle[n].raises
    /\ \A k \in 1..GridSize :
           ~WithinBounds(plan_stats_from_stages(oracle[n].stages), GridEntry(k))

\* C11: a request whose statistics satisfy no entry of the relaxation grid is
\* reported "no_solution_under_constraints" with its statistics (its transfer
\* count among them) attached, and no chain is written for it: the chains
\* written are those of the requests reported "ok".
C11_InfeasibleHasStatsAndNoChain ==
    /\ ChainsAreTheOkRequests
    /\ \A n \in 1..Len(results) :
           NoEntryHolds(n) =>
               /\ results[n].status = "no_solution_under_constraints"
               /\ HasKey(results[n], "stats")
               /\ results[n].stats = plan_stats_from_stages(oracle[n].stages)
               /\ results[n].stats.transferCount = TransfersOf(oracle[n].stages)

\* The largest configured transfer bound.
MaxTransferBound == CHOOSE b \in Range(max_transfers) : \A c \in Range(max_transfers) : c <= b

\* Scenario C at the model's scale: one transfer more than the largest
\* configured transfer bound, reported infeasible, no chain written.
C11_Witness ==
    /\ planner_pc = "done"
    /\ chains = <<>>
    /\ \E n \in 1..Len(results) :
           /\ results[n].status = "no_solution_under_constraints"
           /\ results[n].stats.transferCount = MaxTransferBound + 1

\* The chain of the j-th request reported "ok" is chained from the origin
\* edge, and its ride legs go from a stop to a stop.
ChainedFromOrigin(j) ==
    LET ls == chains[j].legs
        o == ods[OkPositions[j]]
    IN /\ Len(ls) = Len(oracle[OkPositions[j]].stages)
       /\ Len(ls) > 0 => ls[1].from = EdgeRef(o.from_edge)
       /\ \A i \in 1..(Len(ls) - 1) : ls[i].to = ls[i + 1].from
       /\ \A i \in 1..Len(ls) :
              /\ ls[i].type \in {"walk", "ride"}
              /\ ls[i].type = "ride" =>
                     ls[i].from.kind = "busStop" /\ ls[i].to.kind = "busStop"

\* C12: every chain the planner writes starts at the origin edge of its
\* request, each leg starts where the leg before it ends, and every ride leg
\* goes from a stop to a stop.
C12_EmittedChainsAreChained ==
    /\ Len(chains) <= Len(OkPositions)
    /\ \A j \in 1..Len(chains) : ChainedFromOrigin(j)

\* A written chain of three legs with a ride between two walks.
C12_Witness ==
    \E j \in 1..Len(chains) :
        /\ Len(chains[j].legs) = 3
        /\ chains[j].legs[2].type = "ride"
        /\ chains[j].legs[3].to.kind = "edge"

\* The kind of the running anchor when stage k is reached, the stages before
\* it having been converted.
AnchorKindBefore(stages, k) ==
    IF k = 1 THEN "edge"
    ELSE IF is_ride(stages[k - 1]) \/ stages[k - 1].destStop # "" THEN "busStop"
    ELSE "edge"

\* A ride stage with no destination stop, a ride stage reached while the
\* anchor is not a stop, or a stage that is neither a ride nor a walk.
Malformed(stages) ==
    \E k \in 1..Len(stages) :
        \/ is_ride(stages[k]) /\ stages[k].destStop = ""
        \/ is_ride(stages[k]) /\ AnchorKindBefore(stages, k) # "busStop"
        \/ ~is_ride(stages[k]) /\ ~is_walk(stages[k])

\* C13: a request whose stage sequence is malformed is reported "error",
\* and no chain is written for it.
C13_MalformedIsError ==
    /\ ChainsAreTheOkRequests
    /\ \A n \in 1..Len(results) :
           (~oracle[n].raises /\ Malformed(oracle[n].stages)) => results[n].status = "error"

\* The class of a stage as stated: the type tag first, the presence of a
\* line and a destination stop (or of no line) when the tag is neither.
StatedClass(st) ==
    IF st.type = Some(STAGE_WALKING) THEN "walk"
    ELSE IF st.type = Some(STAGE_DRIVING) THEN "ride"
    ELSE IF st.line # NoLine /\ st.destStop # "" THEN "ride"
    ELSE IF st.line = NoLine /\ st.type # None THEN "walk"
    ELSE "malformed"

RideLegsOf(ls) == {i \in 1..Len(ls) : ls[i].type = "ride"}

\* C23: every leg of a written chain has the class of its stage, the type
\* tag coming first (a stage tagged walk gives a walk leg, a stage tagged
\* ride a ride leg, whatever its line and destination stop are); a request
\* with a stage of neither class is not reported "ok"; the statistics of a
\* written chain count the stages as the conversion classified them.
C23_StageClassHonoursTypeTag ==
    /\ Len(chains) <= Len(OkPositions)
    /\ \A j \in 1..Len(chains) :
           LET ls == chains[j].legs
               stages == oracle[OkPositions[j]].stages
               stats == results[OkPositions[j]].stats
           IN /\ Len(ls) = Len(stages)
              /\ \A i \in 1..Len(ls) : ls[i].type = StatedClass(stages[i])
              /\ stats.rideCount = Cardinality(RideLegsOf(ls))
              /\ stats.accessWalkLength # None => ls[1].type = "walk"
              /\ stats.egressWalkLength # None => ls[Len(ls)].type = "walk"
    /\ \A n \in 1..Len(results) :
           (~oracle[n].raises /\ \E i \in 1..Len(oracle[n].stages) :
                                     StatedClass(oracle[n].stages[i]) = "malformed")
               => results[n].status # "ok"

\* C24: in every chain the planner writes, only the final leg ends at an
\* edge: a walk stage without a destination stop becomes a walk to the
\* destination edge only as the last stage of its sequence.
C24_EdgeEndingLegIsFinal ==
    \A j \in 1..Len(chains) :
        \A i \in 1..(Len(chains[j].legs) - 1) : chains[j].legs[i].to.kind # "edge"

\* The results that carry statistics.
WithStats == {n \in 1..Len(results) : HasKey(results[n], "stats")}

\* The statistics of a stage sequence as stated.
StatsAsStated(stats, stages) ==
    LET n == Len(stages)
        access == n > 0 /\ StatedClass(stages[1]) = "walk" /\ stages[1].destStop # ""
        egress == n > 0 /\ StatedClass(stages[n]) = "walk" /\ stages[n].destStop = ""
    IN /\ stats.transferCount = Max2(0, stats.rideCount - 1)
       /\ stats.accessWalkLength # None <=> access
       /\ access => stats.accessWalkLength = Some(stages[1].length)
       /\ stats.egressWalkLength # None <=> egress
       /\ egress => stats.egressWalkLength = Some(stages[n].length)
       /\ n = 0 => stats.rideCount = 0 /\ stats.transferCount = 0

\* C25: in the reported statistics transferCount is rideCount - 1, floor 0;
\* the access walk length is there, and is the length of the first stage,
\* exactly when the first stage is a walk ending at a stop; the egress walk
\* length is there, and is the length of the last stage, exactly when the
\* last stage is a walk not ending at a stop; an empty stage sequence has
\* no ride, no transfer and neither walk length.
C25_PlanStatistics ==
    \A n \in WithStats : StatsAsStated(results[n].stats, oracle[n].stages)

(***************************************************************************)
(* Properties of the Route Stitcher                                        *)
(***************************************************************************)
\* The busStop element a stop id stands for.
StopElem(sid) == CHOOSE bs \in Range(additional) : bs.id = sid

\* The stop ids of a kept route.
StopIdsOfRoute(rid) ==
    (CHOOSE c \in Range(stop_edges_of) : c.rid = rid).stop_ids

\* Stop j of the sequence starts before stop i (i < j) ends, beyond the
\* tolerance; positions that are not given are not compared.
StartsBeforeEnd(later, earlier) ==
    /\ later.startPos # None
    /\ earlier.startPos # None \/ earlier.endPos # None
    /\ Val(later.startPos) + eps
         < Val(IF earlier.endPos # None THEN earlier.endPos ELSE earlier.startPos)

\* f assigns to each stop an index of the path holding the stop's edge,
\* never going back along the sequence.
IsDownstreamAssignment(f, path, sids) ==
    /\ \A k \in 1..Len(sids) : path[f[k]] = stop_to_edge[sids[k]]
    /\ \A k \in 1..(Len(sids) - 1) : f[k] <= f[k + 1]

\* C14: every kept route has an assignment of path indices to its stops,
\* non-decreasing along the stop sequence, each stop's edge at its index,
\* such that of any two stops (adjacent or not) at the same index the later
\* one starts no earlier than the earlier one ends, less the tolerance.
C14_KeptRoutesAreDownstream ==
    \A r \in Range(valid_routes) :
        LET sids == StopIdsOfRoute(r.id) IN
        \E f \in [1..Len(sids) -> 1..Len(r.edges)] :
            /\ IsDownstreamAssignment(f, r.edges, sids)
            /\ \A i \in 1..Len(sids), j \in 1..Len(sids) :
                   (i < j /\ f[i] = f[j]) =>
                       ~StartsBeforeEnd(StopElem(sids[j]), StopElem(sids[i]))

\* The routes the routing loop is through with (indices of stop_edges_of).
Routed ==
    IF st_pc \in {"sumolib", "duarouter"} THEN 1..(route_i - 1)
    ELSE IF st_pc \in {"vehicles", "done"} THEN 1..Len(stop_edges_of)
    ELSE {}

\* The network has no path for the n-th consecutive pair of stop edges.
PairWithoutPath(c, n) ==
    net[<<c.stop_edges[n], c.stop_edges[n + 1]>>] \in {None, Some(<<>>)}

HasPairWithoutPath(c) == \E n \in 1..(Len(c.stop_edges) - 1) : PairWithoutPath(c, n)

C16_VehiclesReferenceKeptRoutes ==
    /\ \A v \in Range(kept_vehicles) :
           /\ v.route # ""
           /\ \E r \in Range(valid_routes) : r.id = v.route /\ r.edges # <<>>
    /\ st_output # None =>
           /\ Range(Val(st_output).vehicles)
                  = {v \in Range(st_vehicles) :
                        \E r \in Range(Val(st_output).routes) : r.id = v.route}
           /\ \A v \in Range(Val(st_output).vehicles) :
                  \E r \in Range(Val(st_output).routes) : r.id = v.route /\ r.edges # <<>>

\* A run that keeps a vehicle and drops another one whose route is in the
\* input and was dropped.
C16_Witness ==
    /\ st_pc = "done"
    /\ Val(st_output).vehicles # <<>>
    /\ \E v \in Range(st_vehicles) :
           /\ v \notin Range(Val(st_output).vehicles)
           /\ \E r \in Range(routes) : r.id = v.route

\* The sum of the per-reason drop counts.
RoutesDropped ==
    st_stats.routes_dropped_missing_stop + st_stats.routes_dropped_no_path
        + st_stats.routes_dropped_duarouter_missing + st_stats.routes_dropped_not_downstream

\* The routes and vehicles the loops are through with.
RoutesCounted ==
    IF st_pc = "start" THEN 0
    ELSE IF st_pc = "collect" THEN (route_i - 1) - Len(stop_edges_of)
    ELSE IF st_pc \in {"sumolib", "duarouter"}
    THEN (Len(routes) - Len(stop_edges_of)) + (route_i - 1)
    ELSE Len(routes)

VehiclesCounted ==
    IF st_pc = "vehicles" THEN route_i - 1
    ELSE IF st_pc = "done" THEN Len(st_vehicles)
    ELSE 0

\* C17: each route the loops are through with is counted once, as kept or
\* under one drop reason, and each vehicle as kept or dropped; after the run
\* routes_total and vehicles_total are the sums.
C17_CountsArePartition ==
    /\ st_stats.routes_kept + RoutesDropped = RoutesCounted
    /\ st_stats.routes_kept = Len(valid_routes)
    /\ st_stats.routes_dropped_missing_stop
           = Cardinality({k \in 1..Len(routes) :
                             /\ st_pc # "start"
                             /\ st_pc = "collect" => k < route_i
                             /\ MissingStop(routes[k])})
    /\ st_stats.vehicles_kept + st_stats.vehicles_dropped_route_missing = VehiclesCounted
    /\ st_stats.vehicles_kept = Len(kept_vehicles)
    /\ st_pc = "done" =>
           /\ st_stats.routes_total = Len(routes)
           /\ st_stats.routes_total = st_stats.routes_kept + RoutesDropped
           /\ st_stats.vehicles_total = Len(st_vehicles)
           /\ st_stats.vehicles_total
                  = st_stats.vehicles_kept + st_stats.vehicles_dropped_route_missing

\* A finished run that kept a route, dropped routes (one of them for its
\* stop order) and dropped a vehicle.
C17_Witness ==
    /\ st_pc = "done"
    /\ st_stats.routes_kept > 0
    /\ st_stats.routes_dropped_not_downstream > 0
    /\ st_stats.vehicles_dropped_route_missing > 0
    /\ st_stats.routes_total = 2

\* A step of the segment loop.
SegmentStep == st_pc = "sumolib" /\ st_stats'.segments_total = st_stats.segments_total + 1

\* C27: the segment cache is a first-writer-wins memo: the network is asked
\* at most once for a pair of edges, an entry once stored (a path or no
\* path) is never changed and is what every later lookup of its pair works
\* with, and segments_total = segments_cached + the number of times the
\* network was asked.
C27_CacheIsFirstWriterWins ==
    /\ [](st_stats.segments_total = st_stats.segments_cached + Len(oracle_calls))
    /\ [](\A i \in 1..Len(oracle_calls), j \in 1..Len(oracle_calls) :
              i # j => oracle_calls[i] # oracle_calls[j])
    /\ [][/\ \A key \in DOMAIN cache : key \in DOMAIN cache' /\ cache'[key] = cache[key]
          /\ (SegmentStep /\ seg_key \in DOMAIN cache) =>
                 /\ oracle_calls' = oracle_calls
                 /\ st_stats'.segments_cached = st_stats.segments_cached + 1
                 /\ IF NoPath(cache[seg_key])
                    THEN st_stats'.routes_dropped_no_path = st_stats.routes_dropped_no_path + 1
                    ELSE full' = full \o (IF seg_i = 0 THEN Val(cache[seg_key])
                                          ELSE Tail(Val(cache[seg_key])))
          /\ (SegmentStep /\ seg_key \notin DOMAIN cache) =>
                 /\ oracle_calls' = Append(oracle_calls, seg_key)
                 /\ seg_key \in DOMAIN cache']_vars

\* Two routes were dropped at the same pair of edges, the second on the
\* stored no-path entry.
C27_Witness ==
    /\ st_stats.routes_dropped_no_path = 2
    /\ st_stats.segments_cached = 1
    /\ Len(oracle_calls) = 2
    /\ NoPath(cache[oracle_calls[2]])

\* The route has fewer than two stops, or a stop no lane or edge is known for.
MissingAssignment(r) ==
    \/ Len(stops_sequence(r)) < 2
    \/ \E k \in 1..Len(stops_sequence(r)) :
           Get(stop_to_edge, stops_sequence(r)[k]) \in {None, Some("")}

RouteById(rid) == CHOOSE r \in Range(routes) : r.id = rid
RoutesMissing == {n \in 1..Len(routes) : MissingAssignment(routes[n])}

\* C28: a route with fewer than two stops or with a stop without lane or
\* edge is dropped as missing-stop before the network is asked anything for
\* it: it is counted once under routes_dropped_missing_stop, it is never
\* handed to the routing loop, never kept, and counted under no other reason.
C28_MissingStopDroppedBeforeRouting ==
    /\ [](st_pc \notin {"start", "collect"} =>
              st_stats.routes_dropped_missing_stop = Cardinality(RoutesMissing))
    /\ [](\A c \in Range(stop_edges_of) : ~MissingAssignment(RouteById(c.rid)))
    /\ [](\A v \in Range(valid_routes) : ~MissingAssignment(RouteById(v.id)))
    /\ [](st_pc = "done" =>
              st_stats.routes_kept + st_stats.routes_dropped_no_path
                  + st_stats.routes_dropped_not_downstream
                  + st_stats.routes_dropped_duarouter_missing
                  = Len(routes) - Cardinality(RoutesMissing))
    /\ [][oracle_calls' # oracle_calls =>
              /\ ~MissingAssignment(RouteById(cur.rid))
              /\ st_stats.routes_dropped_missing_stop = Cardinality(RoutesMissing)]_vars

\* A finished run in which one route was dropped for a missing stop and the
\* network was asked for another one.
C28_Witness ==
    /\ st_pc = "done"
    /\ st_stats.routes_dropped_missing_stop = 1
    /\ Len(routes) = 2
    /\ Len(oracle_calls) >= 1

(***************************************************************************)
(* Properties of the Lane Matcher                                          *)
(***************************************************************************)
\* The stop an output element was written for.
StopOfElem(elem) == CHOOSE st \in Range(m_stops) : st.id = elem.id

\* The lanes the network holds within the radii of the ladder.
Searched(stop) ==
    {c \in Range(stop.near) :
        \E k \in 1..Len(radius_steps(max_radius)) : c.dist <= radius_steps(max_radius)[k]}

\* The edge is no internal, connector, crossing or walking-area edge and the
\* lane allows a required class.
Usable(lane) ==
    /\ lane.edge.id.prefix # ":"
    /\ lane.edge.func \notin {"internal", "connector", "crossing", "walkingarea"}
    /\ \E cls \in Range(IF require_vclasses = None THEN ROUTABLE_CLASSES
                        ELSE Val(require_vclasses)) : cls \in lane.allows

\* The lane's heading is within the threshold of the preferred heading.
Conforms(lane, pref) ==
    /\ lane.shape # None
    /\ Val(lane.shape)[1] # Val(lane.shape)[2]
    /\ angle_diff(Val(lane_heading(lane)), pref) <= max_heading_diff_deg

\* No usable lane within any radius conforms to the preferred heading.
NoConformingLane(stop) ==
    \A c \in Searched(stop) : ~(Usable(c.lane) /\ Conforms(c.lane, Val(PrefOf(stop))))

\* The matched lane conforms, or no lane did.
ConformsUnlessNone(elem) ==
    LET stop == StopOfElem(elem) IN
    PrefOf(stop) # None =>
        \/ Conforms(LaneById(stop, elem.lane), Val(PrefOf(stop)))
        \/ NoConformingLane(stop)

\* C18: a stop matched under a preferred heading has a lane within the
\* threshold of it, unless no usable lane within any searched radius
\* conforms; then the written match carries a fallback flag.
C18_HeadingConformanceOrFlag ==
    \A elem \in Range(root) :
        LET stop == StopOfElem(elem) IN
        PrefOf(stop) # None =>
            \/ Conforms(LaneById(stop, elem.lane), Val(PrefOf(stop)))
            \/ NoConformingLane(stop) /\ HasKey(elem, "headingFallback")

\* The stops the loop is through with.
MatchedSoFar == {m_stops[k] : k \in 1..(m_i - 1)}

\* C19: a stop with a usable lane within some radius of the ladder is
\* matched (unless the network query itself raised).
C19_UnmatchedIsLastResort ==
    \A stop \in MatchedSoFar :
        (~stop.raises /\ \E c \in Searched(stop) : Usable(c.lane)) =>
            /\ stop \notin Range(unmapped_stops)
            /\ \E elem \in Range(root) : elem.id = stop.id

\* The stops in the output file and in the unmatched list, as the files of
\* the finished run hold them.
MappedOutput ==
    IF output_xml \in DOMAIN written_files /\ written_files[output_xml].kind = "additional"
    THEN written_files[output_xml].busStops ELSE <<>>

UnmatchedList ==
    IF unmapped_file(output_xml) \in DOMAIN written_files
       /\ written_files[unmapped_file(output_xml)].kind = "json"
    THEN written_files[unmapped_file(output_xml)].stops ELSE <<>>

\* C20: after the run every stop handed to the matcher is either in the
\* mapped output, with lane and position range, or in the unmatched list, not
\* in both, and the two counts add up to the number of stops.
C20_MappedOrUnmatched ==
    m_pc = "done" =>
        /\ mapped_count + Len(unmapped_stops) = Len(m_stops)
        /\ Len(MappedOutput) + Len(UnmatchedList) = Len(m_stops)
        /\ \A stop \in Range(m_stops) :
               (\E elem \in Range(MappedOutput) :
                    elem.id = stop.id /\ elem.startPos <= elem.endPos)
                   # (stop \in Range(UnmatchedList))

(***************************************************************************)
(* Properties of the Timetable Converter                                   *)
(***************************************************************************)
\* The groups of the line the selection was last made for.
GroupsOfLine == conv_line.services
HasGroupWithKey == \E i \in 1..Len(GroupsOfLine) : GroupsOfLine[i].key = Val(service_key)
DateMatch(i) ==
    /\ DateGiven(service_date)
    /\ normalize_service_date(Val(service_date)).kind = "date"
    /\ KeyContains(GroupsOfLine[i].key, normalize_service_date(Val(service_date)))
RecognizedPolicy == service_policy \in {"all", "first", "largest", "most_trips"}

\* What the precedence exact key, date match, policy selects.
SelectedAsStated ==
    IF KeyGiven(service_key)
    THEN \E i \in 1..Len(GroupsOfLine) :
             GroupsOfLine[i].key = Val(service_key) /\ selection.groups = <<GroupsOfLine[i]>>
    ELSE IF \E i \in 1..Len(GroupsOfLine) : DateMatch(i)
    THEN \E i \in 1..Len(GroupsOfLine) :
             /\ DateMatch(i) /\ \A j \in 1..(i - 1) : ~DateMatch(j)
             /\ selection.groups = <<GroupsOfLine[i]>>
    ELSE /\ service_policy = "all" => selection.groups = GroupsOfLine
         /\ service_policy = "first" /\ GroupsOfLine # <<>> =>
                selection.groups = <<GroupsOfLine[1]>>
         /\ service_policy = "largest" /\ GroupsOfLine # <<>> =>
                \E i \in 1..Len(GroupsOfLine) :
                    /\ selection.groups = <<GroupsOfLine[i]>>
                    /\ \A j \in 1..Len(GroupsOfLine) :
                           count_service_dates(GroupsOfLine[j].key)
                               <= count_service_dates(GroupsOfLine[i].key)
         /\ service_policy = "most_trips" /\ GroupsOfLine # <<>> =>
                \E i \in 1..Len(GroupsOfLine) :
                    /\ selection.groups = <<GroupsOfLine[i]>>
                    /\ \A j \in 1..Len(GroupsOfLine) :
                           Len(GroupsOfLine[j].trips) <= Len(GroupsOfLine[i].trips)
                    /\ \A j \in 1..(i - 1) :
                           Len(GroupsOfLine[j].trips) < Len(GroupsOfLine[i].trips)
         /\ service_policy # "all" /\ RecognizedPolicy /\ GroupsOfLine # <<>> =>
                Len(selection.groups) = 1

\* C21: service-group selection follows the precedence exact key, date
\* match, policy: a supplied exact key selects exactly the group with that
\* key and the run ends in an error when the line has no group with that
\* key; otherwise the first group whose key contains the normalized date;
\* otherwise the policy decides ('first', 'largest', 'most_trips' with the
\* first group on ties, 'all'); any policy but 'all' selects exactly one
\* group of a line that has one.
C21_ServiceGroupSelection ==
    /\ c_pc = "pattern" /\ RecognizedPolicy => SelectedAsStated
    /\ c_pc = "raised" =>
           \/ KeyGiven(service_key) /\ ~HasGroupWithKey
           \/ ~RecognizedPolicy

\* C26: whichever pass matched a stop (connectivity required, connectivity
\* relaxed, heading ignored), the lane written for it is on no internal,
\* connector, crossing or walking-area edge and allows a class of the
\* required set.
C26_FilterSafeAcrossFallbacks ==
    \A elem \in Range(root) : Usable(LaneById(StopOfElem(elem), elem.lane))

\* A stop matched by the heading-ignoring pass while a lane that is not
\* usable lies at least as near.
C26_Witness ==
    \E elem \in Range(root) :
        LET stop == StopOfElem(elem) IN
        /\ PrefOf(stop) # None
        /\ ~Conforms(LaneById(stop, elem.lane), Val(PrefOf(stop)))
        /\ \E c \in Range(stop.near) : ~Usable(c.lane) /\ c.dist <= elem.distanceToLane

RouteElements(out) == {k \in 1..Len(out) : out[k].tag = "route"}
VehicleElements(out) == {k \in 1..Len(out) : out[k].tag = "vehicle"}

\* C29: in the written output every route element is the route of at least
\* one vehicle element, whether or not generation stopped at a vehicle cap,
\* and every vehicle element names a route element of the output.
C29_NoUnusedRoute ==
    rou_output # None =>
        LET out == Val(rou_output)
        IN /\ \A e \in RouteElements(out) :
                  \E v \in VehicleElements(out) : out[v].route = out[e].id
           /\ \A v \in VehicleElements(out) :
                  \E e \in RouteElements(out) : out[e].id = out[v].route

(***************************************************************************)
(* Properties of the Heading Estimator                                     *)
(***************************************************************************)
\* The stops a unit vector was accumulated at.
AccumulatedStops == {sid \in DOMAIN accum : CountOf(counts, sid) > 0}
\* 16 times the square of the mean resultant length of a stop, times n * n
Resultant16(sid) == 16 * (accum[sid][1] * accum[sid][1] + accum[sid][2] * accum[sid][2])
CountSquared(sid) == counts[sid] * counts[sid]

\* C22: a stop gets a heading only if the mean resultant length of the unit
\* vectors accumulated at it strictly exceeds 0.25; a stop at exactly 0.25
\* (five pairs one way, three the other way) or lower stays unconstrained.
C22_HeadingNeedsMoreThanQuarter ==
    h_pc = "done" =>
        /\ \A sid \in DOMAIN headings :
               sid \in AccumulatedStops /\ Resultant16(sid) > CountSquared(sid)
        /\ \A sid \in AccumulatedStops :
               Resultant16(sid) <= CountSquared(sid) => sid \notin DOMAIN headings

====
